---- MODULE Spec2Model ----
(***************************************************************************)
(* A state-machine model of busstop.linear.LinearBusRouteModel (bussim):   *)
(* the network of stops and buses, init() and the tick update() with its   *)
(* four phases (bus movement, stop servicing, passenger arrival and        *)
(* abandonment).                                                           *)
(*                                                                         *)
(* Conventions                                                             *)
(*  - A tick is one atomic action: update() runs to completion or raises.  *)
(*    When it raises, the mutations made before the exception stay (Python *)
(*    does not roll back); err then names the exception and the run ends.  *)
(*  - time.time() is the variable now, counted in 1/Resolution seconds; it *)
(*    is read once per tick.                                               *)
(*  - Money is counted in half currency units (3.5 is 7, 2.5 is 5).        *)
(*  - events holds the events appended by the last call of init() or       *)
(*    update(), also when the call raised before returning them; each      *)
(*    event also carries the bus ("by"), the stop ("at") and the passenger *)
(*    object ("uid") it arose from, which the program's tuples leave out.  *)
(*  - built, calls and moved are history variables: the buses as they were *)
(*    constructed, the stop_at invocations of the last tick and the index  *)
(*    of the last bus whose movement that tick applied.                    *)
(***************************************************************************)
EXTENDS Integers, Sequences, FiniteSets, TLC

\* ------------------------------------------------------------------ bounds
\* update() is called at most MaxTicks times in a run.
MaxTicks == 6

\* At most MaxPax passengers are generated by the arrival process in a run.
MaxPax == 2

\* Clock readings per second (the granularity of time.time() in the model).
Resolution == 2

\* ------------------------------------------------------------ program data
\* The local variable of update_stop that no branch assigned.
Unbound == 99

\* The patience threshold of leave_stop, in seconds.
Patience == 12

\* avg_wait_time = [0] * 9
Buckets == 9

\* avg_wait_time[wait_time - 5]
BucketOffset == 5

\* self.fixed_cost += 25, self.oil_cost += 2.5 (in half units).
FixedCostPerBus == 50
TurnCost == 5

\* One fare for every class.
FareFlat(rel) == 4

\* self.income += 3.5 / 5 / 2 (in half units).
Fare(rel) ==
    CASE rel = "r" -> 7
      [] rel = "e" -> 10
      [] rel = "l" -> 4
      [] OTHER -> 0

\* self.busstop: the names random.choice draws the destination from.
busstop ==
    <<"Centre St", "South St", "North St", "West St", "Queens St",
      "East St", "Abbey St", "Harr St", "Steph St", "Kenn St">>

busstop_coordinates ==
    [n \in {busstop[i] : i \in 1..Len(busstop)} |->
        CASE n = "West St" -> <<0, 0>>
          [] n = "Queens St" -> <<25, 0>>
          [] n = "Centre St" -> <<75, 0>>
          [] n = "South St" -> <<75, -30>>
          [] n = "North St" -> <<75, 30>>
          [] n = "Abbey St" -> <<50, 0>>
          [] n = "East St" -> <<100, 0>>
          [] n = "Harr St" -> <<55, 30>>
          [] n = "Kenn St" -> <<5, -20>>
          [] n = "Steph St" -> <<100, 30>>]

busstop_y == {"South St", "North St", "Centre St"}
busstop_x == {"West St", "Queens St", "Abbey St", "East St", "Centre St"}
busstop_s == {"Queens St", "North St", "Harr St", "Kenn St", "Steph St"}

\* The network's stop lists as the demonstration script builds them.
StopOrder ==
    <<"West St", "North St", "Centre St", "South St", "East St",
      "Queens St", "Abbey St", "Harr St", "Steph St", "Kenn St">>
StopSet == {StopOrder[i] : i \in 1..Len(StopOrder)}
hori_stops == <<"West St", "Centre St", "East St", "Queens St", "Abbey St">>
vert_stops == <<"North St", "Centre St", "South St">>
s_stops == <<"Harr St", "Kenn St", "Steph St", "North St", "Queens St">>

\* BusStop.position of the stop named n.
StopPosition(n) == busstop_coordinates[n]

\* ---------------------------------------------------------------- helpers
\* round(): to the nearest integer, a tie to the even neighbour; n/d with
\* n >= 0, d > 0.
Round(n, d) ==
    LET q == n \div d
        r == n % d
    IN  IF 2 * r < d THEN q
        ELSE IF 2 * r > d THEN q + 1
        ELSE IF q % 2 = 0 THEN q ELSE q + 1

\* list.remove(passenger) that removes nothing.
RemoveNothing(list, p) == list

\* list.remove(passenger): passengers are distinct objects, told apart by uid.
Remove(list, p) == SelectSeq(list, LAMBDA q : q.uid # p.uid)

\* BusPassenger(name, source, destination, h, v, s, arrive_time, change,
\* changed_and_alight); uid is the object's identity.
BusPassenger(uid, name, source, destination, h, v, s, arrive_time, change, caa) ==
    [uid |-> uid, name |-> name, source |-> source, destination |-> destination,
     horizontal_direction |-> h, vertical_direction |-> v,
     inclined_direction |-> s, arrive_time |-> arrive_time,
     change |-> change, changed_and_alight |-> caa]

\* Bus(name, position, direction, speed, passengers, stopped, stations, move,
\* rapid_express_local, capacity, passenger_count, busdir)
Bus(name, position, direction, speed, passengers, stopped, stations, move, rel, capacity, passenger_count, busdir) ==
    [name |-> name, position |-> position, direction |-> direction,
     speed |-> speed, passengers |-> passengers, stopped |-> stopped,
     stations |-> stations, move |-> move, rapid_express_local |-> rel,
     capacity |-> capacity, passenger_count |-> passenger_count,
     busdir |-> busdir]

\* The passenger field of an event that names no passenger.
NoPax == 0 - 1

\* An event tuple; the fields a tag does not use are "-", NoPax or 0.
Event(tag, uid, pax, by, at, dep, des, h, v, s) ==
    [tag |-> tag, uid |-> uid, pax |-> pax, by |-> by, at |-> at, dep |-> dep,
     des |-> des, h |-> h, v |-> v, s |-> s]

\* ---------------------------------------------------------------- stop_at
\* The state a tick works on is a record S with the fields
\*   buses, stops, avg_wait_time, income, oil_cost, passenger_count,
\*   passenger_num, next_uid, board_passengers, leave_passengers, events,
\*   err, calls, moved, alighted (the passenger objects that alighted, as
\*   the call left them).

\* passenger.<geometry>_direction for the geometry of the bus.
FlagOf(p, move) ==
    CASE move = "v" -> p.vertical_direction
      [] move = "h" -> p.horizontal_direction
      [] move = "s" -> p.inclined_direction

\* An exec that assigns nothing.
ZeroFlagNothing(p, move) == p

\* exec("leaving_passengers[0].<geometry>_direction = 0")
ZeroFlag(p, move) ==
    CASE move = "v" -> [p EXCEPT !.vertical_direction = 0]
      [] move = "h" -> [p EXCEPT !.horizontal_direction = 0]
      [] move = "s" -> [p EXCEPT !.inclined_direction = 0]

\* self.busstop_y / busstop_x / busstop_s for the geometry of the bus.
AxisStops(move) ==
    CASE move = "v" -> busstop_y
      [] move = "h" -> busstop_x
      [] move = "s" -> busstop_s

\* Leaves without the transfer hubs: only the destination counts.
LeavesAtDestinationOnly(p, stop) == p.destination = stop

\* The test that puts an onboard passenger into leaving_passengers.
Leaves(p, stop) ==
    \/ p.destination = stop
    \/ stop = "Centre St" /\ p.horizontal_direction # 0 /\ p.vertical_direction # 0
    \/ stop = "Queens St" /\ p.horizontal_direction # 0 /\ p.inclined_direction # 0
    \/ stop = "North St" /\ p.vertical_direction # 0 /\ p.inclined_direction # 0

\* ClassAdmits with a rapid bus tested as an express bus is.
ClassAdmitsRapidAsExpress(bus, p, stop) ==
    LET dest_in_stations == p.destination \in bus.stations /\ stop \in bus.stations
    IN  CASE bus.rapid_express_local \in {"r", "e"} -> dest_in_stations
          [] bus.rapid_express_local = "l" -> TRUE
          [] OTHER -> FALSE

\* ClassAdmits with an empty station list standing for every stop.
ClassAdmitsEmptyMeansAll(bus, p, stop) ==
    LET served == IF bus.stations = {} THEN StopSet ELSE bus.stations
        not_same_axes == p.destination \notin AxisStops(bus.move) /\ stop \in served
        dest_in_stations == p.destination \in served /\ stop \in served
    IN  CASE bus.rapid_express_local = "r" -> dest_in_stations \/ not_same_axes
          [] bus.rapid_express_local = "e" -> dest_in_stations
          [] bus.rapid_express_local = "l" -> TRUE
          [] OTHER -> FALSE

\* The service-class test of the boarding loop.
ClassAdmits(bus, p, stop) ==
    LET not_same_axes == p.destination \notin AxisStops(bus.move) /\ stop \in bus.stations
        dest_in_stations == p.destination \in bus.stations /\ stop \in bus.stations
    IN  CASE bus.rapid_express_local = "r" -> dest_in_stations \/ not_same_axes
          [] bus.rapid_express_local = "e" -> dest_in_stations
          [] bus.rapid_express_local = "l" -> TRUE
          [] OTHER -> FALSE

\* DirectionMatches taking whoever rides the line, whichever way.
DirectionMatchesEitherWay(bus, p) == FlagOf(p, bus.move) # 0

\* if bus.busdir[bus.move] == direction
DirectionMatches(bus, p) == bus.busdir[bus.move] = FlagOf(p, bus.move)

\* HasRoom letting a full bus take one more passenger.
HasRoomOffByOne(bus) == Len(bus.passengers) <= bus.capacity

\* if len(bus.passengers) < max_capacity
HasRoom(bus) == Len(bus.passengers) < bus.capacity

\* The subscript of avg_wait_time[wait_time - 5]: Python counts a negative
\* subscript from the end; 0 stands for IndexError.
BucketIndex(wait_time) ==
    LET i == wait_time - BucketOffset
    IN  IF i >= 0 /\ i < Buckets THEN i + 1
        ELSE IF i < 0 /\ i >= 0 - Buckets THEN Buckets + i + 1
        ELSE 0

\* The body of "if len(bus.passengers) < max_capacity": passenger boards.
Board(S, b, stop, p, now) ==
    LET bus == S.buses[b]
        wait_time == Round(now - p.arrive_time, Resolution)
        k == BucketIndex(wait_time)
    IN  IF k = 0 THEN [S EXCEPT !.err = "IndexError"]
        ELSE [S EXCEPT
                !.avg_wait_time[k] = @ + 1,
                !.passenger_count = @ + 1,
                !.income = @ + Fare(bus.rapid_express_local),
                !.board_passengers = @ + 1,
                !.buses[b].stopped = TRUE,
                !.buses[b].passengers = Append(@, p),
                !.buses[b].passenger_count = @ + 1,
                !.events = Append(@, Event("BOARDS", p.uid, p.name, bus.name, stop, p.source,
                                           p.destination, p.horizontal_direction,
                                           p.vertical_direction, p.inclined_direction)),
                !.stops[stop] = Remove(@, p)]

\* The last statement of stop_at: bus.stopped = False.
Depart(S, b) == [S EXCEPT !.buses[b].stopped = FALSE]

\* for passenger in stop.passengers, from the i-th passenger on.
RECURSIVE BoardLoop(_, _, _, _, _)
BoardLoop(S, b, stop, i, now) ==
    IF i > Len(S.stops[stop]) THEN Depart(S, b)
    ELSE LET p == S.stops[stop][i]
             bus == S.buses[b]
         IN  IF ClassAdmits(bus, p, stop) /\ DirectionMatches(bus, p)
             THEN IF HasRoom(bus) THEN Board(S, b, stop, p, now)
                  ELSE Depart(S, b)
             ELSE BoardLoop(S, b, stop, i + 1, now)

\* Transfers with the transfer branch never taken.
TransfersNever(first) == FALSE

\* if leaving_passengers[0].change and not leaving_passengers[0].changed_and_alight
Transfers(first) == first.change /\ ~first.changed_and_alight

\* A transfer that also clears the passenger's change flag.
RequeuedCleared(first, now) == [first EXCEPT !.arrive_time = now, !.change = FALSE]

\* The passenger object the transfer branch appends to stop.passengers:
\* leaving_passengers[0] with arrive_time = time.time().
Requeued(first, now) == [first EXCEPT !.arrive_time = now]

\* The branch "if len(leaving_passengers) != 0": leaving_passengers[0]
\* alights; scanned is bus.passengers after the scan has set
\* changed_and_alight, and passenger is the loop variable left by the scan.
Alight(S, b, stop, scanned, leaving, now) ==
    LET bus == S.buses[b]
        first == leaving[1]
        passenger == scanned[Len(scanned)]
        tag == IF Transfers(first) THEN "CHANGES" ELSE "ALIGHTS"
        gone == ZeroFlag(IF tag = "CHANGES" THEN Requeued(first, now) ELSE first, bus.move)
    IN  [S EXCEPT
            !.buses[b].stopped = TRUE,
            !.buses[b].passengers = Remove(scanned, first),
            !.stops[stop] = IF tag = "CHANGES" THEN Append(@, gone) ELSE @,
            !.alighted = Append(@, gone),
            !.events = Append(@, Event(tag, first.uid, first.name, bus.name, stop, passenger.source,
                                       first.destination, passenger.horizontal_direction,
                                       passenger.vertical_direction,
                                       passenger.inclined_direction))]

\* stop_at(bus, stop) for the b-th bus.
stop_at(S, b, stop, now) ==
    LET bus == S.buses[b]
        scanned == [i \in 1..Len(bus.passengers) |->
                      IF bus.passengers[i].destination = stop
                      THEN [bus.passengers[i] EXCEPT !.changed_and_alight = TRUE]
                      ELSE bus.passengers[i]]
        leaving == SelectSeq(scanned, LAMBDA p : Leaves(p, stop))
        T == [S EXCEPT !.buses[b].passengers = scanned]
    IN  IF Len(bus.passengers) # 0
        THEN IF Len(leaving) # 0
             THEN Alight(S, b, stop, scanned, leaving, now)
             ELSE BoardLoop(T, b, stop, 1, now)
        ELSE IF Len(S.stops[stop]) # 0
             THEN BoardLoop(S, b, stop, 1, now)
             ELSE Depart(S, b)

\* One invocation of stop_at together with its entry in calls.
ServeStop(S, b, stop, now) ==
    LET T == stop_at(S, b, stop, now)
    IN  [T EXCEPT !.calls = Append(@,
            [bus |-> b, stop |-> stop,
             before |-> [bus |-> S.buses[b], waiting |-> S.stops[stop]],
             after |-> [bus |-> T.buses[b], waiting |-> T.stops[stop]],
             events |-> SubSeq(T.events, Len(S.events) + 1, Len(T.events)),
             alighted |-> SubSeq(T.alighted, Len(S.alighted) + 1, Len(T.alighted)),
             err |-> T.err])]

\* ------------------------------------------------------- bus movement
\* old < stop <= new for a bus heading up the axis, old > stop >= new for
\* one heading down.
Crossed(dir, old, c, new) ==
    IF dir = 1 THEN old < c /\ c <= new ELSE old > c /\ c >= new

\* for stop in self.<geometry>_stops: stop_at for every stop crossed; axis
\* is the coordinate compared (1 for x, 2 for y) and dir is bus.direction as
\* read before the loop.
RECURSIVE CrossLoop(_, _, _, _, _, _, _, _, _)
CrossLoop(S, b, list, i, axis, dir, old, new, now) ==
    IF S.err # "none" \/ i > Len(list) THEN S
    ELSE IF Crossed(dir, old, StopPosition(list[i])[axis], new)
         THEN CrossLoop(ServeStop(S, b, list[i], now), b, list, i + 1, axis, dir, old, new, now)
         ELSE CrossLoop(S, b, list, i + 1, axis, dir, old, new, now)

\* Advance forgetting the sign table when the bus turns.
AdvanceKeepsSign(S, b, position, turn) ==
    LET bus == S.buses[b]
    IN  IF turn
        THEN [S EXCEPT
                !.buses[b].position = position,
                !.buses[b].direction = 0 - @,
                !.events = Append(@, Event("BUS TURNS", 0, NoPax, bus.name, "-", "-", "-", 0, 0, 0)),
                !.oil_cost = @ + TurnCost]
        ELSE [S EXCEPT !.buses[b].position = position]

\* Advance negating the sign table and not the direction when the bus turns.
AdvanceKeepsDirection(S, b, position, turn) ==
    LET bus == S.buses[b]
    IN  IF turn
        THEN [S EXCEPT
                !.buses[b].position = position,
                !.buses[b].busdir[bus.move] = 0 - @,
                !.events = Append(@, Event("BUS TURNS", 0, NoPax, bus.name, "-", "-", "-", 0, 0, 0)),
                !.oil_cost = @ + TurnCost]
        ELSE [S EXCEPT !.buses[b].position = position]

\* The "if not bus.stopped" branch after the new position is known: the bus
\* takes the position and, when turn holds, turns around.
Advance(S, b, position, turn) ==
    LET bus == S.buses[b]
    IN  IF turn
        THEN [S EXCEPT
                !.buses[b].position = position,
                !.buses[b].direction = 0 - @,
                !.buses[b].busdir[bus.move] = 0 - @,
                !.events = Append(@, Event("BUS TURNS", 0, NoPax, bus.name, "-", "-", "-", 0, 0, 0)),
                !.oil_cost = @ + TurnCost]
        ELSE [S EXCEPT !.buses[b].position = position]

update_bus_vert(S, b, net, now) ==
    LET bus == S.buses[b]
        x == bus.position[1]
        y == bus.position[2]
        new_y == y + bus.speed * bus.direction
        T == Advance(S, b, <<x, new_y>>, ~(net.vert_start <= new_y /\ new_y <= net.vert_end))
    IN  IF ~bus.stopped
        THEN CrossLoop(T, b, vert_stops, 1, 2, T.buses[b].direction, y, new_y, now)
        ELSE CrossLoop(S, b, vert_stops, 1, 2, bus.direction,
                       y - bus.speed * bus.direction, y, now)

\* update_bus_hori with the crossing test reading the direction the bus had
\* before it moved.
update_bus_horiHeading(S, b, net, now) ==
    LET bus == S.buses[b]
        x == bus.position[1]
        y == bus.position[2]
        new_x == x + bus.speed * bus.direction
        T == Advance(S, b, <<new_x, y>>, ~(net.hori_start <= new_x /\ new_x <= net.hori_end))
    IN  IF ~bus.stopped
        THEN CrossLoop(T, b, hori_stops, 1, 1, bus.direction, x, new_x, now)
        ELSE CrossLoop(S, b, hori_stops, 1, 1, bus.direction,
                       x - bus.speed * bus.direction, x, now)

update_bus_hori(S, b, net, now) ==
    LET bus == S.buses[b]
        x == bus.position[1]
        y == bus.position[2]
        new_x == x + bus.speed * bus.direction
        T == Advance(S, b, <<new_x, y>>, ~(net.hori_start <= new_x /\ new_x <= net.hori_end))
    IN  IF ~bus.stopped
        THEN CrossLoop(T, b, hori_stops, 1, 1, T.buses[b].direction, x, new_x, now)
        ELSE CrossLoop(S, b, hori_stops, 1, 1, bus.direction,
                       x - bus.speed * bus.direction, x, now)

\* The plateau bounds of the inclined route.
PlateauTop == 30
PlateauBottom == 0 - 20
PlateauTopX == 55
PlateauBottomX == 5

\* Clamp without the clamping.
ClampNothing(y) == y

\* if y >= 30: 30 elif y <= -20: -20
Clamp(y) ==
    IF y >= PlateauTop THEN PlateauTop
    ELSE IF y <= PlateauBottom THEN PlateauBottom
    ELSE y

update_bus_s(S, b, net, now) ==
    LET bus == S.buses[b]
        x == bus.position[1]
        old_y == Clamp(bus.position[2])
        new_x == x + bus.speed * bus.direction
        new_y == IF old_y >= PlateauTop /\ x > PlateauTopX THEN PlateauTop
                 ELSE IF old_y <= PlateauBottom /\ x < PlateauBottomX THEN PlateauBottom
                 ELSE Clamp(old_y + bus.speed * bus.direction)
        T == Advance(S, b, <<new_x, new_y>>, ~(net.s_start <= new_x /\ new_x <= net.s_end))
    IN  IF ~bus.stopped
        THEN CrossLoop(T, b, s_stops, 1, 1, T.buses[b].direction, x, new_x, now)
        ELSE CrossLoop(S, b, s_stops, 1, 1, bus.direction,
                       x - bus.speed * bus.direction, x, now)

\* for bus in self.buses, from the b-th bus on.
RECURSIVE BusLoop(_, _, _, _)
BusLoop(S, b, net, now) ==
    IF S.err # "none" \/ b > Len(S.buses) THEN S
    ELSE LET move == S.buses[b].move
             T == [S EXCEPT !.moved = b]
         IN  BusLoop(CASE move = "h" -> update_bus_hori(T, b, net, now)
                       [] move = "v" -> update_bus_vert(T, b, net, now)
                       [] move = "s" -> update_bus_s(T, b, net, now)
                       [] OTHER -> T,
                     b + 1, net, now)

\* ------------------------------------------------------------ update_stop
\* x and y of a named stop in self.busstop_coordinates.
CoordX(n) == busstop_coordinates[n][1]
CoordY(n) == busstop_coordinates[n][2]

\* "if a > b: flag = 1 elif a < b: flag = -1": equal coordinates leave the
\* flag unassigned.
Toward(to, from) ==
    IF to > from THEN 1 ELSE IF to < from THEN 0 - 1 ELSE Unbound

\* A classification that never asks for a change of bus.
ChangeNever(stop, destination) == FALSE

\* "Finds whether the passenger change at transfer stations."
Change(stop, destination) ==
    IF stop = "Centre St" /\ (destination \in busstop_x \/ destination \in busstop_y) THEN FALSE
    ELSE IF stop = "North St" /\ (destination \in busstop_s \/ destination \in busstop_y) THEN FALSE
    ELSE IF stop = "Queens St" /\ (destination \in busstop_x \/ destination \in busstop_s) THEN FALSE
    ELSE IF stop \in busstop_y /\ destination \notin busstop_y THEN TRUE
    ELSE IF stop \in busstop_x /\ destination \notin busstop_x THEN TRUE
    ELSE IF stop \in busstop_s /\ destination \notin busstop_s THEN TRUE
    ELSE FALSE

\* The branches "elif not change" of the direction classification:
\* <<horizontal_direction, vertical_direction, inclined_direction>>.
DirectFlags(stop, destination) ==
    LET dx == Toward(CoordX(destination), CoordX(stop))
        dy == Toward(CoordY(destination), CoordY(stop))
    IN  IF (stop = "Centre St" /\ destination \in busstop_y)
           \/ (stop = "North St" /\ destination \in busstop_y) THEN <<0, dy, 0>>
        ELSE IF (stop = "Centre St" /\ destination \in busstop_x)
           \/ (stop = "Queens St" /\ destination \in busstop_x) THEN <<dx, 0, 0>>
        ELSE IF (stop = "Queens St" /\ destination \in busstop_s)
           \/ (stop = "North St" /\ destination \in busstop_s) THEN <<0, 0, dx>>
        ELSE IF stop \in busstop_x THEN <<dx, 0, 0>>
        ELSE IF stop \in busstop_s THEN <<0, 0, dx>>
        ELSE IF stop \in busstop_y THEN <<0, dy, 0>>
        ELSE <<Unbound, Unbound, Unbound>>

\* The branches "elif change" of the direction classification.
TransferFlags(stop, destination) ==
    LET dx == Toward(CoordX(destination), CoordX(stop))
        dy == Toward(CoordY(destination), CoordY(stop))
    IN  IF (stop \in busstop_y /\ destination \in busstop_x)
           \/ (stop \in busstop_x /\ destination \in busstop_y) THEN <<dx, dy, 0>>
        ELSE IF (stop \in busstop_x /\ destination \in busstop_s)
           \/ (stop \in busstop_s /\ destination \in busstop_x) THEN <<dx, 0, dx>>
        ELSE IF (stop \in busstop_y /\ destination \in busstop_s)
           \/ (stop \in busstop_s /\ destination \in busstop_y) THEN <<0, dy, dx>>
        ELSE <<Unbound, Unbound, Unbound>>

\* The classification without its branches for particular pairs of stops.
FlagsByLinesOnly(stop, destination, change) ==
    IF ~change THEN DirectFlags(stop, destination) ELSE TransferFlags(stop, destination)

\* "Finds the horizontal, vertical and inclined direction of a passenger."
Flags(stop, destination, change) ==
    LET pair == <<stop, destination>>
    IN  IF pair \in {<<"East St", "Harr St">>, <<"South St", "Kenn St">>} THEN <<0 - 1, 1, 0 - 1>>
        ELSE IF pair \in {<<"Harr St", "East St">>, <<"Kenn St", "South St">>} THEN <<1, 0 - 1, 1>>
        ELSE IF pair = <<"East St", "Steph St">> THEN <<0 - 1, 1, 1>>
        ELSE IF pair = <<"Steph St", "East St">> THEN <<1, 0 - 1, 0 - 1>>
        ELSE IF pair = <<"Abbey St", "Steph St">> THEN <<1, 1, 1>>
        ELSE IF pair = <<"Steph St", "Abbey St">> THEN <<0 - 1, 0 - 1, 0 - 1>>
        ELSE IF pair = <<"Harr St", "Centre St">> THEN <<0, 0 - 1, 1>>
        ELSE IF pair = <<"Centre St", "Harr St">> THEN <<0, 1, 0 - 1>>
        ELSE IF pair = <<"West St", "North St">> THEN <<1, 0, 1>>
        ELSE IF pair = <<"North St", "West St">> THEN <<0 - 1, 0, 0 - 1>>
        ELSE IF pair = <<"Centre St", "East St">> THEN <<1, 0, 0>>
        ELSE IF pair = <<"East St", "Centre St">> THEN <<0 - 1, 0, 0>>
        ELSE IF pair = <<"Centre St", "Steph St">> THEN <<0, 1, 1>>
        ELSE IF pair = <<"Steph St", "Centre St">> THEN <<0, 0 - 1, 0 - 1>>
        ELSE IF pair \in {<<"Kenn St", "West St">>, <<"Abbey St", "Harr St">>} THEN <<0 - 1, 0, 1>>
        ELSE IF pair \in {<<"West St", "Kenn St">>, <<"Harr St", "Abbey St">>} THEN <<1, 0, 0 - 1>>
        ELSE IF ~change THEN DirectFlags(stop, destination)
        ELSE TransferFlags(stop, destination)

\* The boardings and abandonments the module's histogram has recorded.
RECURSIVE Recorded(_, _)
Recorded(histogram, k) ==
    IF k = 0 THEN 0 ELSE histogram[k] + Recorded(histogram, k - 1)

\* The ordinal taken from what the module has recorded, not from the
\* network's own counter.
NextOrdinalOfModule(S) == S.passenger_num + Recorded(S.avg_wait_time, Buckets)

\* "name = 'random' + str(self.passenger_num)": the ordinal of the name.
NextOrdinal(S) == S.passenger_num

\* update_stop putting the new passenger at the head of the stop's list.
update_stopAtHead(S, stop, rates, r, destination, now) ==
    IF stop \in DOMAIN rates /\ rates[stop] > r
    THEN LET change == Change(stop, destination)
             f == Flags(stop, destination, change)
             p == BusPassenger(S.next_uid, NextOrdinal(S), stop, destination,
                               f[1], f[2], f[3], now, change, FALSE)
             T == [S EXCEPT !.passenger_num = @ + 1]
         IN  IF Unbound \in {f[1], f[2], f[3]}
             THEN [T EXCEPT !.err = "UnboundLocalError"]
             ELSE [T EXCEPT
                     !.next_uid = @ + 1,
                     !.stops[stop] = <<p>> \o @,
                     !.events = Append(@, Event("WAITS", p.uid, p.name, "-", stop, stop,
                                                destination, f[1], f[2], f[3]))]
    ELSE S

\* update_stop(stop): r is the value of random.random() in thousandths and
\* destination the name the retry loop of random.choice ends with.
update_stop(S, stop, rates, r, destination, now) ==
    IF stop \in DOMAIN rates /\ rates[stop] > r
    THEN LET change == Change(stop, destination)
             f == Flags(stop, destination, change)
             p == BusPassenger(S.next_uid, NextOrdinal(S), stop, destination,
                               f[1], f[2], f[3], now, change, FALSE)
             T == [S EXCEPT !.passenger_num = @ + 1]
         IN  IF Unbound \in {f[1], f[2], f[3]}
             THEN [T EXCEPT !.err = "UnboundLocalError"]
             ELSE [T EXCEPT
                     !.next_uid = @ + 1,
                     !.stops[stop] = Append(@, p),
                     !.events = Append(@, Event("WAITS", p.uid, p.name, "-", stop, stop,
                                                destination, f[1], f[2], f[3]))]
    ELSE S

\* for stop in self.stops: update_stop(stop), from the i-th stop on; draws
\* gives the random values each stop with a rate consumes.
RECURSIVE ArrivalLoop(_, _, _, _, _)
ArrivalLoop(S, i, rates, draws, now) ==
    IF S.err # "none" \/ i > Len(StopOrder) THEN S
    ELSE LET stop == StopOrder[i]
         IN  ArrivalLoop(IF stop \in DOMAIN draws
                         THEN update_stop(S, stop, rates, draws[stop].r,
                                          draws[stop].destination, now)
                         ELSE S,
                         i + 1, rates, draws, now)

\* ------------------------------------------------------------- leave_stop
\* Overdue with the threshold a second late.
OverdueLate(p, now) == now - p.arrive_time > (Patience + 1) * Resolution

\* if wait_time > 12
Overdue(p, now) == now - p.arrive_time > Patience * Resolution

\* leave_stop going on after a passenger left: everyone overdue leaves.
RECURSIVE leave_stopEveryone(_, _, _, _)
leave_stopEveryone(S, stop, i, now) ==
    IF i > Len(S.stops[stop]) THEN S
    ELSE LET p == S.stops[stop][i]
         IN  IF Overdue(p, now)
             THEN leave_stopEveryone(
                    [S EXCEPT
                       !.events = Append(@, Event("LEFT", p.uid, p.name, "-", stop, "-", "-", 0, 0, 0)),
                       !.stops[stop] = Remove(@, p),
                       !.avg_wait_time[Buckets] = @ + 1,
                       !.leave_passengers = @ + 1],
                    stop, i, now)
             ELSE leave_stopEveryone(S, stop, i + 1, now)

\* for passenger in stop.passengers, from the i-th passenger on: the first
\* one found overdue leaves.
RECURSIVE leave_stop(_, _, _, _)
leave_stop(S, stop, i, now) ==
    IF i > Len(S.stops[stop]) THEN S
    ELSE LET p == S.stops[stop][i]
         IN  IF Overdue(p, now)
             THEN [S EXCEPT
                     !.events = Append(@, Event("LEFT", p.uid, p.name, "-", stop, "-", "-", 0, 0, 0)),
                     !.stops[stop] = Remove(@, p),
                     !.avg_wait_time[Buckets] = @ + 1,
                     !.leave_passengers = @ + 1]
             ELSE leave_stop(S, stop, i + 1, now)

\* for stop in self.stops: leave_stop(stop), from the i-th stop on.
RECURSIVE LeaveLoop(_, _, _)
LeaveLoop(S, i, now) ==
    IF S.err # "none" \/ i > Len(StopOrder) THEN S
    ELSE LeaveLoop(leave_stop(S, StopOrder[i], 1, now), i + 1, now)

\* ----------------------------------------------------------------- state
VARIABLES
    net,                \* the network's bounds and rates (BusNetwork.__init__)
    env,                \* what the clock and the random source may yield
    buses,              \* self.buses
    built,              \* the buses as the constructor received them
    stops,              \* stop.passengers of every stop of self.stops
    now,                \* time.time()
    ticks,              \* calls of update() so far
    pc,                 \* "constructed" before init(), then "running"
    err,                \* the exception the last call raised, or "none"
    events,             \* the events of the last call
    calls,              \* the stop_at invocations of the last update()
    moved,              \* index of the last bus the last update() moved
    avg_wait_time,      \* the module-level histogram
    income, fixed_cost, oil_cost,
    passenger_count, passenger_num, next_uid,
    board_passengers, leave_passengers,
    twin                \* a second, identically built network in the same process

vars ==
    <<net, env, buses, built, stops, now, ticks, pc, err, events, calls, moved,
      avg_wait_time, income, fixed_cost, oil_cost, passenger_count,
      passenger_num, next_uid, board_passengers, leave_passengers, twin>>

\* The state a network object owns (the histogram is the module's).
Own(S, cost) ==
    [buses |-> S.buses, stops |-> S.stops, events |-> S.events, err |-> S.err,
     income |-> S.income, fixed_cost |-> cost, oil_cost |-> S.oil_cost,
     passenger_count |-> S.passenger_count, passenger_num |-> S.passenger_num,
     next_uid |-> S.next_uid, board_passengers |-> S.board_passengers,
     leave_passengers |-> S.leave_passengers]

\* The state the first network owns.
Mine ==
    [buses |-> buses, stops |-> stops, events |-> events, err |-> err,
     income |-> income, fixed_cost |-> fixed_cost, oil_cost |-> oil_cost,
     passenger_count |-> passenger_count, passenger_num |-> passenger_num,
     next_uid |-> next_uid, board_passengers |-> board_passengers,
     leave_passengers |-> leave_passengers]

\* The working state of a call of update() on a network owning own, with
\* the module's histogram as it finds it.
Start(own, histogram) ==
    [buses |-> own.buses, stops |-> own.stops, avg_wait_time |-> histogram,
     income |-> own.income, oil_cost |-> own.oil_cost,
     passenger_count |-> own.passenger_count, passenger_num |-> own.passenger_num,
     next_uid |-> own.next_uid, board_passengers |-> own.board_passengers,
     leave_passengers |-> own.leave_passengers, events |-> <<>>,
     err |-> "none", calls |-> <<>>, moved |-> 0, alighted |-> <<>>]

\* ------------------------------------------------------------- scenarios
\* The bounds the demonstration script builds every network with.
DemoBounds ==
    [vert_start |-> 0 - 30, vert_end |-> 30, hori_start |-> 0, hori_end |-> 100,
     s_start |-> 0, s_end |-> 100]

\* The arrival rate of the demonstration script, in thousandths.
DemoRate == 25

\* Values of random.random(), in thousandths: below and above the rate.
RandomDraws == {0, 500}

\* A bus as the demonstration script builds it: empty, moving, its sign
\* table holding its direction for its own geometry and 0 for the others.
DemoBus(name, position, direction, speed, stations, move, rel, capacity) ==
    Bus(name, position, direction, speed, <<>>, FALSE, stations, move, rel, capacity, 0,
        [g \in {"h", "v", "s"} |-> IF g = move THEN direction ELSE 0])

NoWaiting == [n \in StopSet |-> <<>>]

\* A passenger handed to a constructor before the run.
Dave == BusPassenger(0, 100, "Centre St", "Steph St", 0, 1, 0 - 1, 0, TRUE, FALSE)

Scenario(bs, waiting, rated, dests, deltas) ==
    [bounds |-> DemoBounds, buses |-> bs, stops |-> waiting,
     rates |-> [n \in rated |-> DemoRate], dests |-> dests, deltas |-> deltas,
     resets |-> FALSE]

\* The same network driven by a script that calls init_conditions first.
Reset(sc) == [sc EXCEPT !.resets = TRUE]

\* A network whose horizontal line ends at Abbey St.
ShortLine == [DemoBounds EXCEPT !.hori_end = 50]

Scenarios ==
    { \* a full local bus on the horizontal line, passengers for the line and beyond
      Scenario(<<DemoBus("L1", <<0, 0>>, 1, 25, {}, "h", "l", 1)>>,
               NoWaiting, {"Abbey St"}, {"Centre St", "North St"}, {1, 9}),
      \* the same line reached late: the bus first turns at the lower bound
      Scenario(<<DemoBus("L3", <<0, 0>>, 0 - 1, 25, {}, "h", "l", 2)>>,
               NoWaiting, {"Abbey St"}, {"East St"}, {1, 9, 17}),
      \* an inclined and a vertical bus near the ends of their routes
      Scenario(<<DemoBus("L4", <<85, 50>>, 0 - 1, 20, {}, "s", "l", 2),
                 DemoBus("L2", <<75, 10>>, 1, 15, {}, "v", "l", 2)>>,
               NoWaiting, {"Harr St"}, {"Queens St", "West St"}, {1, 9}),
      \* a rapid bus and an express bus sharing the horizontal line
      Scenario(<<DemoBus("R1", <<30, 0>>, 1, 25, {"West St", "Centre St", "East St"}, "h", "r", 2),
                 DemoBus("E1", <<80, 0>>, 1, 25, {"West St", "East St"}, "h", "e", 2)>>,
               NoWaiting, {"Centre St", "East St"}, {"West St"}, {1, 9}),
      \* a rapid bus at the end of its line, a passenger bound for another line
      Scenario(<<DemoBus("R3", <<75, 0>>, 1, 25, {"West St", "Centre St", "East St"}, "h", "r", 2)>>,
               NoWaiting, {"East St"}, {"North St"}, {1}),
      \* a fast bus that crosses two stops in one tick
      Scenario(<<DemoBus("L5", <<100, 0>>, 1, 50, {}, "h", "l", 2)>>,
               NoWaiting, {"Centre St", "Abbey St"}, {"West St"}, {1, 9}),
      \* a bus shuttling on a network built with a shorter horizontal line
      [Scenario(<<DemoBus("L7", <<0, 0>>, 1, 25, {}, "h", "l", 2)>>,
                NoWaiting, {"Abbey St"}, {"Queens St"}, {1, 9})
         EXCEPT !.bounds = ShortLine, !.resets = TRUE],
      \* a slow bus picking up at two consecutive stops, for the next stop or beyond
      Scenario(<<DemoBus("L8", <<0, 0>>, 1, 20, {}, "h", "l", 2)>>,
               NoWaiting, {"Queens St", "Abbey St"}, {"Abbey St", "Centre St"}, {1}),
      \* a slow bus reaching a stop where passengers wait for both directions
      Scenario(<<DemoBus("L9", <<0, 0>>, 1, 20, {}, "h", "l", 2)>>,
               NoWaiting, {"Abbey St"}, {"West St", "East St"}, {1}),
      \* two buses heading against each other on a slow clock
      Scenario(<<DemoBus("L10", <<0, 0>>, 1, 20, {}, "h", "l", 2),
                 DemoBus("L11", <<100, 0>>, 0 - 1, 25, {}, "h", "l", 2)>>,
               NoWaiting, {"Queens St", "Centre St"}, {"West St", "East St"}, {9}),
      \* a rapid bus picking up at the end of its line for a stop of another line
      Scenario(<<DemoBus("R4", <<25, 0>>, 0 - 1, 25, {"West St", "Centre St", "East St"}, "h", "r", 2)>>,
               NoWaiting, {"West St"}, {"North St"}, {1}),
      \* an express bus that runs past the last stop of its line and turns
      Scenario(<<DemoBus("E3", <<55, 0>>, 1, 25, {"West St", "East St"}, "h", "e", 2)>>,
               NoWaiting, {"East St"}, {"West St"}, {1}),
      \* an inclined and a horizontal bus that meet at Queens St
      Scenario(<<DemoBus("L12", <<85, 30>>, 0 - 1, 20, {}, "s", "l", 2),
                 DemoBus("L13", <<80, 0>>, 0 - 1, 10, {}, "h", "l", 2)>>,
               NoWaiting, {"Harr St"}, {"West St"}, {1}),
      \* a rapid and an express bus built without stations
      Scenario(<<DemoBus("R2", <<0, 0>>, 1, 25, {}, "h", "r", 2),
                 DemoBus("E2", <<25, 0>>, 1, 25, {}, "h", "e", 2)>>,
               NoWaiting, {"Abbey St"}, {"East St"}, {1}),
      \* stops no bus serves in time
      Reset(Scenario(<<DemoBus("L6", <<15, 0 - 10>>, 1, 5, {}, "s", "l", 2)>>,
                     NoWaiting, {"Kenn St"}, {"West St"}, {1, 24})),
      \* networks built with a passenger already waiting or riding
      Reset(Scenario(<<DemoBus("L1", <<40, 0>>, 1, 25, {}, "h", "l", 2)>>,
                     [NoWaiting EXCEPT !["Centre St"] = <<Dave>>], {}, {"West St"}, {1})),
      Reset(Scenario(<<Bus("L2", <<75, 10>>, 1, 15, <<Dave>>, FALSE, {}, "v", "l", 2, 0,
                           [h |-> 0, v |-> 1, s |-> 0])>>,
                     NoWaiting, {}, {"West St"}, {1})) }

\* The state after a scenario's network is constructed.
Constructed ==
    /\ \E sc \in Scenarios :
         /\ net = sc.bounds @@ [rates |-> sc.rates]
         /\ env = [dests |-> sc.dests, deltas |-> sc.deltas, resets |-> sc.resets]
         /\ buses = sc.buses
         /\ built = sc.buses
         /\ stops = sc.stops
    /\ now = 0
    /\ ticks = 0
    /\ pc = "constructed"
    /\ err = "none"
    /\ events = <<>>
    /\ calls = <<>>
    /\ moved = 0
    /\ avg_wait_time = [k \in 1..Buckets |-> 0]
    /\ income = 0
    /\ fixed_cost = 0
    /\ oil_cost = 0
    /\ passenger_count = 0
    /\ passenger_num = 0
    /\ next_uid = 1
    /\ board_passengers = 0
    /\ leave_passengers = 0

\* One network alone in the process.
Init == Constructed /\ twin = <<>>

\* The indices of the network's bus list.
BusIndex == 1..Len(buses)

\* ------------------------------------------------------ init_conditions()
\* The values random.randint(lo, hi) is drawn from: the ends of its range.
RandInt(lo, hi) == {lo, hi}

\* The positions init_conditions may give a bus of each geometry.
ResetPositions(move) ==
    CASE move = "s" -> {<<x, 30>> : x \in RandInt(60, 90)}
      [] move = "h" -> {<<x, 0>> : x \in RandInt(10, 90)}
      [] move = "v" -> {<<75, y>> : y \in RandInt(0 - 20, 20)}

\* The ways init_conditions may place the buses bs.
Placements(bs) ==
    {where \in [1..Len(bs) -> UNION {ResetPositions(m) : m \in {"s", "h", "v"}}] :
        \A b \in 1..Len(bs) : where[b] \in ResetPositions(bs[b].move)}

\* "for stop in stops: stop.passengers = []".
Emptied(waiting) == [n \in DOMAIN waiting |-> <<>>]

\* "for bus in buses: ...", the b-th bus placed at where[b].
Replaced(bs, where) ==
    [b \in 1..Len(bs) |->
        [bs[b] EXCEPT !.passengers = <<>>, !.stopped = FALSE, !.position = where[b]]]

\* init_conditions(stops, buses) on the network's own stops and buses, where
\* the driving script calls it, between construction and init(); where is
\* what random.randint returns.
init_conditionsAt(where) ==
    /\ pc = "constructed"
    /\ env.resets
    /\ pc' = "reset"
    /\ stops' = Emptied(stops)
    /\ buses' = Replaced(buses, where)
    /\ UNCHANGED <<net, env, built, now, ticks, err, events, calls, moved, avg_wait_time,
                   income, fixed_cost, oil_cost, passenger_count, passenger_num, next_uid,
                   board_passengers, leave_passengers>>

init_conditions ==
    \E where \in Placements(buses) : init_conditionsAt(where) /\ UNCHANGED twin

\* ------------------------------------------------------------------ init()
\* passenger.map_direction: the attribute lookup of the two event loops.
HasMapDirection(p) == "map_direction" \in DOMAIN p

\* The first loop of init(): WAITS events of the waiting passengers, from
\* the i-th stop on; R is [events, err, fixed_cost, stops, buses].
RECURSIVE InitStops(_, _)
InitStops(R, i) ==
    IF R.err # "none" \/ i > Len(StopOrder) THEN R
    ELSE LET list == R.stops[StopOrder[i]]
             ok == \A k \in 1..Len(list) : HasMapDirection(list[k])
             waits == [k \in 1..Len(list) |->
                         Event("WAITS", list[k].uid, list[k].name, "-", StopOrder[i], StopOrder[i],
                               list[k].destination, 0, 0, 0)]
         IN  InitStops(IF ok THEN [R EXCEPT !.events = @ \o waits]
                       ELSE [R EXCEPT !.err = "AttributeError"], i + 1)

\* The second loop of init(): the fixed cost and the BOARDS events, from the
\* b-th bus on.
RECURSIVE InitBuses(_, _)
InitBuses(R, b) ==
    IF R.err # "none" \/ b > Len(R.buses) THEN R
    ELSE LET list == R.buses[b].passengers
             ok == \A k \in 1..Len(list) : HasMapDirection(list[k])
             boards == [k \in 1..Len(list) |->
                          Event("BOARDS", list[k].uid, list[k].name, R.buses[b].name,
                                StopOrder[Len(StopOrder)], StopOrder[Len(StopOrder)],
                                list[k].destination, 0, 0, 0)]
             T == [R EXCEPT !.fixed_cost = @ + FixedCostPerBus]
         IN  InitBuses(IF ok THEN [T EXCEPT !.events = @ \o boards]
                       ELSE [T EXCEPT !.err = "AttributeError"], b + 1)

\* What init() returns or raises, and the fixed cost it charges, on a
\* network owning own.
InitResult(own) ==
    InitBuses(InitStops([events |-> <<>>, err |-> "none", fixed_cost |-> 0,
                         stops |-> own.stops, buses |-> own.buses], 1), 1)

\* The state a network owning own has after init().
Initialised(own) ==
    LET R == InitResult(own)
    IN  [own EXCEPT !.events = R.events, !.err = R.err, !.fixed_cost = R.fixed_cost,
                    !.passenger_count = 0, !.passenger_num = 0, !.board_passengers = 0,
                    !.leave_passengers = 0, !.income = 0, !.oil_cost = 0]

initOnce ==
    /\ pc \in {"constructed", "reset"}
    /\ LET R == InitResult(Mine)
       IN  /\ events' = R.events
           /\ err' = R.err
           /\ fixed_cost' = R.fixed_cost
    /\ pc' = "running"
    /\ avg_wait_time' = [k \in 1..Buckets |-> 0]
    /\ passenger_count' = 0
    /\ passenger_num' = 0
    /\ board_passengers' = 0
    /\ leave_passengers' = 0
    /\ income' = 0
    /\ oil_cost' = 0
    /\ UNCHANGED <<net, env, buses, built, stops, now, ticks, calls, moved, next_uid>>

init == initOnce /\ UNCHANGED twin

\* ---------------------------------------------------------------- update()
\* The random values one tick may consume: for every stop with a rate, a
\* value of random.random() and a destination other than the stop.
DrawSets ==
    [DOMAIN net.rates ->
        [r : RandomDraws, destination : env.dests]]

\* The loops of update() with the arrivals taken first.
RunArrivalsFirst(S0, draws, t) ==
    LeaveLoop(BusLoop(ArrivalLoop(S0, 1, net.rates, draws, t), 1, net, t), 1, t)

\* The three loops of update() at clock reading t.
Run(S0, draws, t) ==
    LeaveLoop(ArrivalLoop(BusLoop(S0, 1, net, t), 1, net.rates, draws, t), 1, t)

\* update() is called on a running network whose last call raised nothing.
Callable ==
    /\ pc = "running"
    /\ err = "none"
    /\ ticks < MaxTicks

\* One call of update() that reads the clock d after the last one and
\* consumes draws; S3 is the working state it ends with.
Tick(d, draws, S3) ==
    /\ \A n \in DOMAIN draws : draws[n].destination # n
    /\ S3.passenger_num <= MaxPax
    /\ now' = now + d
    /\ buses' = S3.buses
    /\ stops' = S3.stops
    /\ avg_wait_time' = S3.avg_wait_time
    /\ income' = S3.income
    /\ oil_cost' = S3.oil_cost
    /\ passenger_count' = S3.passenger_count
    /\ passenger_num' = S3.passenger_num
    /\ next_uid' = S3.next_uid
    /\ board_passengers' = S3.board_passengers
    /\ leave_passengers' = S3.leave_passengers
    /\ events' = S3.events
    /\ err' = S3.err
    /\ calls' = S3.calls
    /\ moved' = S3.moved
    /\ ticks' = ticks + 1
    /\ UNCHANGED <<net, env, built, pc, fixed_cost>>

update ==
    /\ Callable
    /\ \E d \in env.deltas, draws \in DrawSets :
        \E S0 \in {Start(Mine, avg_wait_time)} :
            \E S3 \in {Run(S0, draws, now + d)} :
                Tick(d, draws, S3) /\ UNCHANGED twin

Next == init_conditions \/ init \/ update

Spec == Init /\ [][Next]_vars

\* ------------------------------------------------- arrivals at every stop
\* update_stop(stop) on a network without passengers whose rates name every
\* stop, as the demonstration script's do: the draw is below the rate and
\* the destination any other stop.
arrive ==
    /\ Callable
    /\ passenger_num = 0
    /\ \E stop \in StopSet, destination \in StopSet :
        \E draws \in {[n \in {stop} |-> [r |-> 0, destination |-> destination]]} :
        \E S0 \in {Start(Mine, avg_wait_time)} :
        \E S3 \in {update_stop(S0, stop, [n \in StopSet |-> DemoRate], 0, destination, now)} :
            Tick(0, draws, S3) /\ UNCHANGED twin

ArrivalNext == init_conditions \/ init \/ arrive

ArrivalSpec == Init /\ [][ArrivalNext]_vars

\* ------------------------------------------------------------ two networks
\* Two identically built networks in one process, driven in lockstep: each
\* call is made on the first and then on the second, with the same clock
\* readings and the same random values. They share the module's histogram.
twin_init_conditions ==
    \E where \in Placements(buses) :
        /\ init_conditionsAt(where)
        /\ twin' = [twin EXCEPT !.stops = Emptied(twin.stops),
                                !.buses = Replaced(twin.buses, where)]

twin_init == initOnce /\ twin' = Initialised(twin)

twin_update ==
    /\ Callable
    /\ \E d \in env.deltas, draws \in DrawSets :
        \E S0 \in {Start(Mine, avg_wait_time)} :
            \E S3 \in {Run(S0, draws, now + d)} :
                \E T0 \in {Start(twin, S3.avg_wait_time)} :
                    \E T3 \in {Run(T0, draws, now + d)} :
                        /\ Tick(d, draws, S3)
                        /\ twin' = Own(T3, twin.fixed_cost)

TwinInit == Constructed /\ twin = Mine

TwinNext == twin_init_conditions \/ twin_init \/ twin_update

TwinSpec == TwinInit /\ [][TwinNext]_vars

\* ------------------------------------------- two networks, one called alone
\* init() called on the first network alone, after both networks have been
\* initialised.
own_init ==
    /\ Callable
    /\ LET R == InitResult(Mine)
       IN  /\ events' = R.events
           /\ err' = R.err
           /\ fixed_cost' = R.fixed_cost
    /\ avg_wait_time' = [k \in 1..Buckets |-> 0]
    /\ passenger_count' = 0
    /\ passenger_num' = 0
    /\ board_passengers' = 0
    /\ leave_passengers' = 0
    /\ income' = 0
    /\ oil_cost' = 0
    /\ UNCHANGED <<net, env, buses, built, stops, now, ticks, pc, calls, moved, next_uid, twin>>

\* The two networks are initialised together; afterwards a call is made on
\* both or on the first alone.
PairNext == twin_init \/ twin_update \/ update \/ own_init

\* The pairs are built from the one-bus scenarios on a one-second clock.
PairInit == TwinInit /\ Len(buses) = 1 /\ env.deltas = {1} /\ ~env.resets

PairSpec == PairInit /\ [][PairNext]_vars

\* get_wait() on a network owning own: "return avg_wait_time", the list the
\* module's name is bound to.
get_wait(own) == avg_wait_time

\* ----------------------------------------------------------- construction
\* BusStop.__init__(name, position, passengers) with arguments of the right
\* types: the exception it raises, "none" when it returns.
BusStop_init(name, passengers) ==
    IF \A i \in 1..Len(passengers) : passengers[i].source = name
    THEN "none" ELSE "ValueError"

\* Bus.__init__ with arguments of the right types, its tests in the order
\* of the code: the exception it raises, "none" when it returns.
Bus_init(bus) ==
    IF bus.direction \notin {1, 0 - 1} THEN "TypeError"
    ELSE IF bus.move = "v" /\ bus.position[1] # 75 THEN "ValueError"
    ELSE IF bus.move = "h" /\ bus.position[2] # 0 THEN "ValueError"
    ELSE "none"

\* BusNetwork.__init__ stores its arguments and tests none of them.
BusNetwork_init(bounds, bs) == "none"

\* The exceptions raised by the constructors applied to a list of argument
\* tuples, in the order of the calls.
Raised(results) == SelectSeq(results, LAMBDA e : e # "none")

\* The coordinates and directions a script may hand to Bus().
ScriptX == {0, 75, 120}
ScriptY == {0, 10, 40}
ScriptDirections == {1, 0 - 1, 0}

\* The buses a script may try to build: one of any geometry at any of the
\* positions, inside or outside the ranges of the demonstration network.
ScriptBuses ==
    {<<Bus("B1", <<x, y>>, d, 25, <<>>, FALSE, {}, m, "l", 2, 0,
           [g \in {"h", "v", "s"} |-> IF g = m THEN d ELSE 0])>> :
        x \in ScriptX, y \in ScriptY, d \in ScriptDirections, m \in {"h", "v", "s"}}

\* The passenger lists a script may hand to BusStop('Centre St', ...).
ScriptWaiting ==
    {<<>>} \cup
    {<<BusPassenger(0, 100, source, "Steph St", 0, 1, 0 - 1, 0, TRUE, FALSE)>> :
        source \in {"Centre St", "West St"}}

\* A script that has chosen the arguments and built nothing yet.
ConstructInit ==
    /\ net = DemoBounds @@ [rates |-> [n \in {"Abbey St"} |-> DemoRate]]
    /\ env = [dests |-> {"East St"}, deltas |-> {1}, resets |-> FALSE]
    /\ built \in ScriptBuses
    /\ buses = <<>>
    /\ \E waiting \in ScriptWaiting : stops = [NoWaiting EXCEPT !["Centre St"] = waiting]
    /\ now = 0
    /\ ticks = 0
    /\ pc = "script"
    /\ err = "none"
    /\ events = <<>>
    /\ calls = <<>>
    /\ moved = 0
    /\ avg_wait_time = [k \in 1..Buckets |-> 0]
    /\ income = 0
    /\ fixed_cost = 0
    /\ oil_cost = 0
    /\ passenger_count = 0
    /\ passenger_num = 0
    /\ next_uid = 1
    /\ board_passengers = 0
    /\ leave_passengers = 0
    /\ twin = <<>>

\* A constructor call of the script ends the script when it raises.
Constructing(from, to, raised) ==
    /\ pc = from
    /\ pc' = IF raised = <<>> THEN to ELSE "rejected"
    /\ err' = IF raised = <<>> THEN "none" ELSE raised[1]

\* stops = [BusStop(name, position, passengers) for every stop]
new_BusStop ==
    /\ Constructing("script", "stops",
                    Raised([i \in 1..Len(StopOrder) |->
                               BusStop_init(StopOrder[i], stops[StopOrder[i]])]))
    /\ UNCHANGED <<net, env, buses, built, stops, now, ticks, events, calls, moved,
                   avg_wait_time, income, fixed_cost, oil_cost, passenger_count,
                   passenger_num, next_uid, board_passengers, leave_passengers, twin>>

\* buses = [Bus(...) for every bus]
new_Bus ==
    /\ Constructing("stops", "buses", Raised([b \in 1..Len(built) |-> Bus_init(built[b])]))
    /\ buses' = IF Raised([b \in 1..Len(built) |-> Bus_init(built[b])]) = <<>>
                THEN built ELSE buses
    /\ UNCHANGED <<net, env, built, stops, now, ticks, events, calls, moved,
                   avg_wait_time, income, fixed_cost, oil_cost, passenger_count,
                   passenger_num, next_uid, board_passengers, leave_passengers, twin>>

\* model = LinearBusRouteModel(bounds, stops, ..., buses, rates)
new_BusNetwork ==
    /\ Constructing("buses", "constructed", Raised(<<BusNetwork_init(net, buses)>>))
    /\ UNCHANGED <<net, env, buses, built, stops, now, ticks, events, calls, moved,
                   avg_wait_time, income, fixed_cost, oil_cost, passenger_count,
                   passenger_num, next_uid, board_passengers, leave_passengers, twin>>

ConstructNext == new_BusStop \/ new_Bus \/ new_BusNetwork

ConstructSpec == ConstructInit /\ [][ConstructNext]_vars

\* ------------------------------------------------ buses built in any state
\* The horizontal local buses a script may build around Abbey St: at either
\* of two places, slow or fast, heading either way, stopped or not.
PlacedBuses ==
    {<<Bus("B1", <<x, 0>>, d, speed, <<>>, stopped, {}, "h", "l", 2, 0,
           [h |-> d, v |-> 0, s |-> 0])>> :
        x \in {40, 50}, d \in {1, 0 - 1}, speed \in {5, 25}, stopped \in BOOLEAN}

\* A network of the demonstration's bounds with one of these buses, nobody
\* waiting, passengers arriving at Abbey St for East St, one-second ticks.
ResumeInit ==
    /\ net = DemoBounds @@ [rates |-> [n \in {"Abbey St"} |-> DemoRate]]
    /\ env = [dests |-> {"East St"}, deltas |-> {Resolution}, resets |-> FALSE]
    /\ buses \in PlacedBuses
    /\ built = buses
    /\ stops = NoWaiting
    /\ now = 0
    /\ ticks = 0
    /\ pc = "constructed"
    /\ err = "none"
    /\ events = <<>>
    /\ calls = <<>>
    /\ moved = 0
    /\ avg_wait_time = [k \in 1..Buckets |-> 0]
    /\ income = 0
    /\ fixed_cost = 0
    /\ oil_cost = 0
    /\ passenger_count = 0
    /\ passenger_num = 0
    /\ next_uid = 1
    /\ board_passengers = 0
    /\ leave_passengers = 0
    /\ twin = <<>>

ResumeNext == init \/ update

\* A call of update() by the frame callback of the animation, seen by the
\* tick it counts; update() is the only step that counts a tick.
FrameCalled == Callable /\ ticks' = ticks + 1

\* The call of init() by animate_model, seen by the run it starts.
InitCalled == pc = "constructed" /\ pc' = "running"

\* The driving loop calls init() and then update() again and again, as long
\* as the last call raised nothing.
ResumeSpec ==
    ResumeInit /\ [][ResumeNext]_vars /\ WF_pc(InitCalled) /\ WF_ticks(FrameCalled)

\* ------------------------------------------------------- a ride to its end
\* A local bus that runs the horizontal line from West St on a slow clock,
\* passengers arriving for East St at Queens St, which the bus has just
\* left, and at Abbey St and Centre St ahead of it.
RideInit ==
    /\ net = DemoBounds @@ [rates |-> [n \in {"Queens St", "Abbey St", "Centre St"} |-> DemoRate]]
    /\ env = [dests |-> {"East St"}, deltas |-> {9, 25}, resets |-> FALSE]
    /\ buses = <<DemoBus("L14", <<0, 0>>, 1, 25, {}, "h", "l", 2)>>
    /\ built = buses
    /\ stops = NoWaiting
    /\ now = 0
    /\ ticks = 0
    /\ pc = "constructed"
    /\ err = "none"
    /\ events = <<>>
    /\ calls = <<>>
    /\ moved = 0
    /\ avg_wait_time = [k \in 1..Buckets |-> 0]
    /\ income = 0
    /\ fixed_cost = 0
    /\ oil_cost = 0
    /\ passenger_count = 0
    /\ passenger_num = 0
    /\ next_uid = 1
    /\ board_passengers = 0
    /\ leave_passengers = 0
    /\ twin = <<>>

RideNext == init \/ update

\* The driving loop calls init() and then update() again and again.
RideSpec ==
    RideInit /\ [][RideNext]_vars /\ WF_pc(InitCalled) /\ WF_ticks(FrameCalled)

\* ================================================================ claims
Range(f) == {f[i] : i \in DOMAIN f}
Uids(list) == {list[i].uid : i \in 1..Len(list)}
BusIds == 1..Len(buses)
PassengerTags == {"BOARDS", "ALIGHTS", "CHANGES"}
TransferHubs == {"Centre St", "Queens St", "North St"}

\* The position of the passenger object uid in list, 0 when it is absent.
IndexOf(list, uid) ==
    IF uid \in Uids(list) THEN CHOOSE i \in 1..Len(list) : list[i].uid = uid ELSE 0

\* A step of the run is a tick.
IsTick == ticks' = ticks + 1

\* The waiting passengers a bus would take by class and direction.
Boardable(bus, waiting, stop) ==
    {j \in 1..Len(waiting) :
        ClassAdmits(bus, waiting[j], stop) /\ DirectionMatches(bus, waiting[j])}

\* C1: every bus that was within its capacity when constructed carries
\* between 0 and capacity passengers after any number of ticks.
C1_WithinCapacity ==
    \A b \in BusIds :
        Len(built[b].passengers) <= built[b].capacity
            => /\ 0 <= Len(buses[b].passengers)
               /\ Len(buses[b].passengers) <= buses[b].capacity

\* A full bus was at a stop where a passenger it would otherwise take was
\* waiting, and took nobody.
C1_Witness ==
    \E k \in 1..Len(calls) :
        LET c == calls[k]
        IN  /\ Len(c.before.bus.passengers) = c.before.bus.capacity
            /\ \A i \in 1..Len(c.before.bus.passengers) :
                   ~Leaves(c.before.bus.passengers[i], c.stop)
            /\ Boardable(c.before.bus, c.before.waiting, c.stop) # {}
            /\ c.events = <<>>
            /\ c.after.bus.passengers = c.before.bus.passengers

\* The free coordinate of a bus lies within its geometry's [start, end].
InsideBounds(bus) ==
    CASE bus.move = "h" -> net.hori_start <= bus.position[1] /\ bus.position[1] <= net.hori_end
      [] bus.move = "v" -> net.vert_start <= bus.position[2] /\ bus.position[2] <= net.vert_end
      [] bus.move = "s" -> net.s_start <= bus.position[1] /\ bus.position[1] <= net.s_end

\* C2: a horizontal or vertical bus that starts inside [start, end] is inside
\* [start, end] at the end of every tick, the tick it turns around included.
C2_StaysInsideBounds ==
    \A b \in BusIds :
        (buses[b].move \in {"h", "v"} /\ InsideBounds(built[b])) => InsideBounds(buses[b])

InPlateau(y) == PlateauBottom <= y /\ y <= PlateauTop

\* C3: every tick in which an inclined bus moves leaves its y within
\* [-20, 30], and no tick, moving or stopped, takes its y out of [-20, 30].
C3_PlateauBounds ==
    [][\A b \in BusIds :
         buses[b].move = "s" =>
            /\ (IsTick /\ b <= moved' /\ ~buses[b].stopped) => InPlateau(buses'[b].position[2])
            /\ InPlateau(buses[b].position[2]) => InPlateau(buses'[b].position[2])]_vars

\* An inclined bus built above the upper plateau has moved, is stopped at a
\* stop and is on the plateau.
C3_Witness ==
    \E b \in BusIds :
        /\ buses[b].move = "s"
        /\ ~InPlateau(built[b].position[2])
        /\ buses[b].stopped
        /\ buses[b].position # built[b].position
        /\ buses[b].position[2] = PlateauTop

\* No stop and no bus holds the passenger object uid.
Nowhere(uid) ==
    /\ \A n \in StopSet : uid \notin Uids(stops[n])
    /\ \A b \in BusIds : uid \notin Uids(buses[b].passengers)

\* C4: a passenger alighting at a transfer hub that is not its destination
\* with change true is appended to the stop's waiting list with its arrival
\* time reset, under a CHANGES event; one alighting at its destination is
\* in no stop and no bus afterwards, under an ALIGHTS event.
C4_AlightOrTransfer ==
    \A k \in 1..Len(calls) :
        LET c == calls[k]
        IN  \A j \in 1..Len(c.events) :
              LET e == c.events[j]
                  i == IndexOf(c.before.bus.passengers, e.uid)
                  p == c.before.bus.passengers[i]
                  w == c.after.waiting
              IN  e.tag \in {"ALIGHTS", "CHANGES"} =>
                    /\ i # 0
                    /\ e.uid \notin Uids(c.after.bus.passengers)
                    /\ (p.change /\ c.stop \in TransferHubs /\ p.destination # c.stop)
                          => /\ e.tag = "CHANGES"
                             /\ Len(w) = Len(c.before.waiting) + 1
                             /\ w[Len(w)].uid = e.uid
                             /\ w[Len(w)].arrive_time = now
                    /\ p.destination = c.stop
                          => /\ e.tag = "ALIGHTS"
                             /\ e.uid \notin Uids(w)
                             /\ Nowhere(e.uid)

\* A passenger with change true has alighted at a hub short of its
\* destination and waits there.
C4_Witness ==
    \E k \in 1..Len(calls) :
        /\ calls[k].stop \in TransferHubs
        /\ Len(calls[k].events) = 1
        /\ calls[k].events[1].tag = "CHANGES"
        /\ calls[k].events[1].uid \in Uids(stops[calls[k].stop])

\* C5: in one tick no two BOARDS/ALIGHTS/CHANGES events come from the same
\* bus and stop, and no two LEFT events from the same stop.
C5_OneActionPerTick ==
    \A i, j \in 1..Len(events) :
        i < j =>
            /\ (events[i].tag \in PassengerTags /\ events[j].tag \in PassengerTags)
                  => <<events[i].by, events[i].at>> # <<events[j].by, events[j].at>>
            /\ (events[i].tag = "LEFT" /\ events[j].tag = "LEFT")
                  => events[i].at # events[j].at

\* One passenger left a stop where another one, also past the threshold,
\* is still waiting.
C5_Witness ==
    \E i \in 1..Len(events) :
        /\ events[i].tag = "LEFT"
        /\ \E k \in 1..Len(stops[events[i].at]) :
               now - stops[events[i].at][k].arrive_time > Patience * Resolution

\* The smallest element of a non-empty set of numbers.
Min(set) == CHOOSE m \in set : \A n \in set : m <= n

\* C6: when a moving bus crosses a stop, nobody on board is to alight there,
\* the bus has room and some waiting passenger passes the class test with
\* the bus's sign, the call emits exactly one BOARDS event and the first
\* such passenger is on the bus and no longer waiting.
C6_EligibleBoards ==
    \A k \in 1..Len(calls) :
        LET c == calls[k]
            bus == c.before.bus
            able == Boardable(bus, c.before.waiting, c.stop)
            p == c.before.waiting[Min(able)]
        IN  (/\ ~bus.stopped
             /\ \A i \in 1..Len(bus.passengers) : ~Leaves(bus.passengers[i], c.stop)
             /\ Len(bus.passengers) < bus.capacity
             /\ able # {})
            => /\ Len(c.events) = 1
               /\ c.events[1].tag = "BOARDS"
               /\ c.events[1].uid = p.uid
               /\ p.uid \in Uids(c.after.bus.passengers)
               /\ p.uid \notin Uids(c.after.waiting)

\* C6 for the calls that did not raise.
C6_UnlessRaised ==
    \A k \in 1..Len(calls) :
        LET c == calls[k]
            bus == c.before.bus
            able == Boardable(bus, c.before.waiting, c.stop)
            p == c.before.waiting[Min(able)]
        IN  (/\ ~bus.stopped
             /\ \A i \in 1..Len(bus.passengers) : ~Leaves(bus.passengers[i], c.stop)
             /\ Len(bus.passengers) < bus.capacity
             /\ able # {}
             /\ c.err = "none")
            => /\ Len(c.events) = 1
               /\ c.events[1].tag = "BOARDS"
               /\ c.events[1].uid = p.uid
               /\ p.uid \in Uids(c.after.bus.passengers)
               /\ p.uid \notin Uids(c.after.waiting)

\* The passenger has waited more than 12 seconds at clock reading t.
WaitedTooLong(p, t) == t - p.arrive_time > Patience * Resolution

TurnEvents(list, name) ==
    {j \in 1..Len(list) : list[j].tag = "BUS TURNS" /\ list[j].by = name}

\* C8: in a tick a bus turns around (direction and sign-table entry negated,
\* one BUS TURNS event, 2.5 more oil cost) exactly when it was not stopped
\* and its new free coordinate is outside [start, end].
C8_TurnsExactlyWhenOutside ==
    [][IsTick =>
         LET Turning(b) == /\ b <= moved'
                           /\ ~buses[b].stopped
                           /\ ~InsideBounds(buses'[b])
         IN  /\ \A b \in BusIds :
                  LET move == buses[b].move
                      n == Cardinality(TurnEvents(events', buses[b].name))
                  IN  IF Turning(b)
                      THEN /\ buses'[b].direction = 0 - buses[b].direction
                           /\ buses'[b].busdir[move] = 0 - buses[b].busdir[move]
                           /\ n = 1
                      ELSE /\ buses'[b].direction = buses[b].direction
                           /\ buses'[b].busdir[move] = buses[b].busdir[move]
                           /\ n = 0
             /\ oil_cost' = oil_cost + TurnCost * Cardinality({b \in BusIds : Turning(b)})]_vars

\* A bus has just turned around for the second time in the run.
C8_Witness ==
    /\ \E j \in 1..Len(events) : events[j].tag = "BUS TURNS"
    /\ oil_cost >= 2 * TurnCost

\* C9: init() raises nothing and returns one WAITS event per passenger
\* waiting and one BOARDS event per passenger on board.
C9_InitReturnsEvents ==
    (pc = "running" /\ ticks = 0) =>
        /\ err = "none"
        /\ \A n \in StopSet : \A k \in 1..Len(stops[n]) :
              Cardinality({j \in 1..Len(events) :
                  events[j].tag = "WAITS" /\ events[j].uid = stops[n][k].uid}) = 1
        /\ \A b \in BusIds : \A k \in 1..Len(buses[b].passengers) :
              Cardinality({j \in 1..Len(events) :
                  events[j].tag = "BOARDS" /\ events[j].uid = buses[b].passengers[k].uid}) = 1

\* C10: update() never raises.
C10_UpdateNeverRaises == ticks > 0 => err = "none"

\* C11: init_conditions leaves every stop's list empty, every bus empty and
\* moving, every bus's position within the bounds the network was built
\* with for its geometry, and the network's stops, bounds and rates as they
\* were.
C11_ResetWithinBounds ==
    [][(pc = "constructed" /\ pc' = "reset") =>
         /\ \A n \in StopSet : stops'[n] = <<>>
         /\ \A b \in BusIds :
               /\ buses'[b].passengers = <<>>
               /\ ~buses'[b].stopped
               /\ InsideBounds(buses'[b])
         /\ net' = net
         /\ DOMAIN stops' = DOMAIN stops]_vars

Phase(e) ==
    CASE e.tag = "WAITS" -> Len(buses) + 1
      [] e.tag = "LEFT" -> Len(buses) + 2
      [] OTHER -> CHOOSE b \in BusIds : buses[b].name = e.by

\* The place of a stop in self.stops.
StopIndex(n) == CHOOSE i \in 1..Len(StopOrder) : StopOrder[i] = n

\* The place of an event in the order claimed: every movement, then every
\* servicing, then the arrivals, then the abandonments.
ClaimedPhase(e) ==
    CASE e.tag = "BUS TURNS" -> 1
      [] e.tag \in PassengerTags -> 2
      [] e.tag = "WAITS" -> 3
      [] e.tag = "LEFT" -> 4

\* C13 as claimed: the events of a tick come in the order movement of every
\* bus, servicing of every bus, arrivals, abandonments.
C13_MovementBeforeAllServicing ==
    \A i, j \in 1..Len(events) :
        (ticks > 0 /\ i < j) => ClaimedPhase(events[i]) <= ClaimedPhase(events[j])

\* C13 as amended: a tick moves and then services one bus after the other in
\* list order, then processes the arrivals of every stop in list order, then
\* the abandonments of every stop in list order; its events come in that
\* order, and nobody who arrived in a tick boards or leaves in it.
C13_BusByBusThenStops ==
    [][IsTick =>
         /\ \A i, j \in 1..Len(events') :
               i < j =>
                  /\ Phase(events'[i]) <= Phase(events'[j])
                  /\ (events'[i].tag = events'[j].tag /\ events'[i].tag \in {"WAITS", "LEFT"})
                        => StopIndex(events'[i].at) < StopIndex(events'[j].at)
         /\ \A i, j \in 1..Len(events') :
               (events'[i].tag = "WAITS" /\ events'[j].tag \in {"BOARDS", "LEFT"})
                  => events'[i].uid # events'[j].uid]_vars

\* In one tick the first bus of the list took a passenger before the second
\* one moved and turned, and a passenger arrived afterwards.
C13_Witness ==
    /\ Len(events) >= 3
    /\ events[1].tag = "BOARDS"
    /\ events[2].tag = "BUS TURNS"
    /\ events[1].by # events[2].by
    /\ events[3].tag = "WAITS"

\* The bucket (counted from 1) claimed for a rounded wait: the first up to
\* 5 seconds, the last above 12, one per second between.
ClaimedBucket(wait_time) ==
    IF wait_time <= BucketOffset THEN 1
    ELSE IF wait_time <= Patience THEN wait_time - BucketOffset + 1
    ELSE Buckets

\* The rounded waits of the passengers that boarded in the last tick, one
\* entry per stop_at call that emitted a BOARDS event.
BoardedWaits ==
    {<<k, Round(now - calls[k].before.waiting[
                   IndexOf(calls[k].before.waiting, calls[k].events[1].uid)].arrive_time,
                Resolution)>> :
        k \in {c \in 1..Len(calls) :
                 calls[c].events # <<>> /\ calls[c].events[1].tag = "BOARDS"}}

\* C14: every boarding adds one to the bucket of its rounded wait (the first
\* bucket up to 5, bucket w - 5 for 6..12, the last above 12) and to no
\* other; the only other additions are the abandonments, to the last bucket.
C14_BoardingBucket ==
    [][IsTick =>
         \A k \in 1..Buckets :
            avg_wait_time'[k] - avg_wait_time[k] =
                Cardinality({bw \in BoardedWaits' : ClaimedBucket(bw[2]) = k})
                + (IF k = Buckets
                   THEN Cardinality({j \in 1..Len(events') : events'[j].tag = "LEFT"})
                   ELSE 0)]_vars

\* The three direction flags of a passenger.
FlagsOf(p) == <<p.horizontal_direction, p.vertical_direction, p.inclined_direction>>

\* The flags of a passenger with the one of a geometry set to 0.
FlagsWithout(p, move) ==
    CASE move = "h" -> <<0, p.vertical_direction, p.inclined_direction>>
      [] move = "v" -> <<p.horizontal_direction, 0, p.inclined_direction>>
      [] move = "s" -> <<p.horizontal_direction, p.vertical_direction, 0>>

\* C15: a passenger that alights from a bus of geometry g (ALIGHTS or
\* CHANGES) has flag 0 for g and its other two flags as before, and so does
\* the object a CHANGES puts into the waiting list; waiting passengers keep
\* their flags, and whoever boards a bus has a non-zero flag for the bus's
\* geometry: a passenger deposited by a CHANGES never boards a bus of the
\* geometry it left.
C15_FlagZeroedAfterAlighting ==
    [][IsTick =>
         /\ \A k \in 1..Len(calls') :
               LET c == calls'[k]
                   g == c.before.bus.move
               IN  /\ (c.events # <<>> /\ c.events[1].tag \in {"ALIGHTS", "CHANGES"}) =>
                         LET i == IndexOf(c.before.bus.passengers, c.events[1].uid)
                             was == c.before.bus.passengers[i]
                         IN  /\ i # 0
                             /\ Len(c.alighted) = 1
                             /\ c.alighted[1].uid = was.uid
                             /\ FlagsOf(c.alighted[1]) = FlagsWithout(was, g)
                             /\ c.events[1].tag = "CHANGES" =>
                                   c.after.waiting[Len(c.after.waiting)] = c.alighted[1]
                   /\ (c.events # <<>> /\ c.events[1].tag = "BOARDS") =>
                         LET i == IndexOf(c.before.waiting, c.events[1].uid)
                         IN  i # 0 /\ FlagOf(c.before.waiting[i], g) # 0
         /\ \A n \in StopSet : \A i \in 1..Len(stops[n]) :
               LET j == IndexOf(stops'[n], stops[n][i].uid)
               IN  j # 0 => FlagsOf(stops'[n][j]) = FlagsOf(stops[n][i])]_vars

\* A bus with room is at a hub where a passenger it deposited waits for
\* another line, and takes nobody.
C15_Witness ==
    \E k \in 1..Len(calls) :
        LET c == calls[k]
        IN  /\ c.events = <<>>
            /\ HasRoom(c.before.bus)
            /\ \E i \in 1..Len(c.before.waiting) :
                  LET p == c.before.waiting[i]
                  IN  /\ p.source # c.stop
                      /\ p.change
                      /\ FlagOf(p, c.before.bus.move) = 0
                      /\ FlagsOf(p) # <<0, 0, 0>>
                      /\ ClassAdmits(c.before.bus, p, c.stop)

\* The stop_at calls of the last tick in which a passenger changed lines.
ChangesCalls ==
    {k \in 1..Len(calls) : calls[k].events # <<>> /\ calls[k].events[1].tag = "CHANGES"}

\* C16 as stated: after a CHANGES the passenger's change flag is false.
C16_ChangeFlagCleared ==
    \A k \in ChangesCalls : ~calls[k].alighted[1].change

\* C16 as the code behaves: after a CHANGES the passenger waits at the hub
\* with its change flag still true, changed_and_alight still false and
\* arrive_time set to the clock reading of the tick.
C16_ChangeFlagKept ==
    \A k \in ChangesCalls :
        LET q == calls[k].alighted[1]
            w == calls[k].after.waiting
        IN  /\ q.change
            /\ ~q.changed_and_alight
            /\ q.arrive_time = now
            /\ w # <<>> /\ w[Len(w)] = q
            /\ q.destination # calls[k].stop

\* A passenger that has just changed lines waits at the hub, its change
\* flag true.
C16_Witness ==
    \E k \in ChangesCalls :
        \E i \in 1..Len(stops[calls[k].stop]) :
            /\ stops[calls[k].stop][i].uid = calls[k].events[1].uid
            /\ stops[calls[k].stop][i].change

\* The two geometries that meet at a transfer hub.
HubGeometries(stop) ==
    CASE stop = "Centre St" -> {"h", "v"}
      [] stop = "Queens St" -> {"h", "s"}
      [] stop = "North St" -> {"v", "s"}
      [] OTHER -> {}

\* Alighting-eligible: the stop is the passenger's destination, or it is a
\* transfer hub and both flags of the geometries meeting there are non-zero.
AlightingEligible(p, stop) ==
    \/ p.destination = stop
    \/ /\ HubGeometries(stop) # {}
       /\ \A g \in HubGeometries(stop) : FlagOf(p, g) # 0

\* The positions in the bus's list of the passengers eligible to alight.
EligibleOnboard(c) ==
    {i \in 1..Len(c.before.bus.passengers) : AlightingEligible(c.before.bus.passengers[i], c.stop)}

\* C17: in every stop_at call the passenger that alights is the first
\* alighting-eligible one in the bus's list order; when somebody alights the
\* bus is stopped, nobody boards and the waiting list gains at most that
\* passenger; when nobody on board is eligible nobody alights.
C17_FirstEligibleAlights ==
    \A k \in 1..Len(calls) :
        LET c == calls[k]
            onboard == c.before.bus.passengers
        IN  IF EligibleOnboard(c) # {}
            THEN LET i == Min(EligibleOnboard(c))
                 IN  /\ Len(c.events) = 1
                     /\ c.events[1].tag \in {"ALIGHTS", "CHANGES"}
                     /\ c.events[1].uid = onboard[i].uid
                     /\ c.after.bus.stopped
                     /\ [j \in 1..Len(c.after.bus.passengers) |-> c.after.bus.passengers[j].uid]
                           = [j \in 1..(Len(onboard) - 1) |->
                                 IF j < i THEN onboard[j].uid ELSE onboard[j + 1].uid]
                     /\ \A j \in 1..Len(c.before.waiting) :
                           c.after.waiting[j] = c.before.waiting[j]
                     /\ Len(c.after.waiting) - Len(c.before.waiting) =
                           (IF c.events[1].tag = "CHANGES" THEN 1 ELSE 0)
            ELSE \A j \in 1..Len(c.events) : c.events[j].tag \notin {"ALIGHTS", "CHANGES"}

\* Two passengers on board are both eligible to alight at a stop where
\* somebody waits whom the bus would take, and the first one alights.
C17_WitnessBothEligible ==
    \E k \in 1..Len(calls) :
        LET c == calls[k]
        IN  /\ Cardinality(EligibleOnboard(c)) >= 2
            /\ c.events[1].uid = c.before.bus.passengers[1].uid
            /\ Len(c.after.bus.passengers) = 1

\* The first passenger on board stays and a later one alights.
C17_Witness ==
    \E k \in 1..Len(calls) :
        LET c == calls[k]
        IN  /\ EligibleOnboard(c) # {}
            /\ 1 \notin EligibleOnboard(c)
            /\ c.after.bus.stopped
            /\ c.after.bus.passengers # <<>>
            /\ c.after.bus.passengers[1].uid = c.before.bus.passengers[1].uid

\* Somebody alights while a passenger the bus would take is waiting.
C17_WitnessNoBoarding ==
    \E k \in 1..Len(calls) :
        LET c == calls[k]
        IN  /\ EligibleOnboard(c) # {}
            /\ \E j \in 1..Len(c.before.waiting) :
                  /\ DirectionMatches(c.before.bus, c.before.waiting[j])
                  /\ ClassAdmits(c.before.bus, c.before.waiting[j], c.stop)
            /\ Len(c.after.bus.passengers) < c.before.bus.capacity

\* The service-class test as the three classes are described: rapid,
\* express, local.
PassesClassTest(bus, p, stop) ==
    LET recognised == bus.stations
    IN  CASE bus.rapid_express_local = "r" ->
               \/ p.destination \in recognised /\ stop \in recognised
               \/ p.destination \notin AxisStops(bus.move) /\ stop \in recognised
          [] bus.rapid_express_local = "e" ->
               p.destination \in recognised /\ stop \in recognised
          [] bus.rapid_express_local = "l" -> TRUE

\* The stop_at calls of the last tick that reached a boarding loop: nobody
\* on board was to alight.
BoardingCalls ==
    {k \in 1..Len(calls) :
        \A i \in 1..Len(calls[k].before.bus.passengers) :
            ~Leaves(calls[k].before.bus.passengers[i], calls[k].stop)}

\* The positions in the waiting list of the passengers that pass the class
\* test of the bus and whose flag for its geometry equals the bus's sign.
Candidates(c) ==
    {i \in 1..Len(c.before.waiting) :
        /\ PassesClassTest(c.before.bus, c.before.waiting[i], c.stop)
        /\ FlagOf(c.before.waiting[i], c.before.bus.move) = c.before.bus.busdir[c.before.bus.move]}

\* The call reached the statements that board a passenger: it ends with a
\* BOARDS event, or with the IndexError the first of them can raise.
ReachedBoarding(c) ==
    \/ c.events # <<>> /\ c.events[1].tag = "BOARDS"
    \/ c.err = "IndexError"

\* C18: a waiting passenger passes the class test of the bus exactly when
\* the description of its class says so: whoever boards passes the test,
\* and a bus with room reaches the boarding statements exactly when a
\* waiting passenger whose flag matches its sign passes the test.
C18_ClassTest ==
    \A k \in BoardingCalls :
        LET c == calls[k]
        IN  /\ (c.events # <<>> /\ c.events[1].tag = "BOARDS") =>
                  \E i \in 1..Len(c.before.waiting) :
                      /\ c.before.waiting[i].uid = c.events[1].uid
                      /\ PassesClassTest(c.before.bus, c.before.waiting[i], c.stop)
            /\ HasRoom(c.before.bus) => (ReachedBoarding(c) <=> Candidates(c) # {})

\* A rapid bus takes a passenger bound for a stop off its line that is not
\* one of its stations.
C18_Witness ==
    \E k \in BoardingCalls :
        LET c == calls[k]
        IN  /\ c.before.bus.rapid_express_local = "r"
            /\ c.events # <<>> /\ c.events[1].tag = "BOARDS"
            /\ c.events[1].des \notin AxisStops(c.before.bus.move)
            /\ c.events[1].des \notin c.before.bus.stations

\* A rapid bus takes a passenger bound for one of its stations.
C18_WitnessStation ==
    \E k \in BoardingCalls :
        LET c == calls[k]
        IN  /\ c.before.bus.rapid_express_local = "r"
            /\ c.events # <<>> /\ c.events[1].tag = "BOARDS"
            /\ c.events[1].des \in c.before.bus.stations

\* An express bus with room leaves behind a passenger heading its way.
C18_WitnessRefused ==
    \E k \in BoardingCalls :
        LET c == calls[k]
        IN  /\ c.before.bus.rapid_express_local = "e"
            /\ HasRoom(c.before.bus)
            /\ c.events = <<>>
            /\ \E i \in 1..Len(c.before.waiting) :
                  DirectionMatches(c.before.bus, c.before.waiting[i])

\* An express bus takes a passenger.
C18_WitnessExpress ==
    \E k \in BoardingCalls :
        LET c == calls[k]
        IN  /\ c.before.bus.rapid_express_local = "e"
            /\ c.events # <<>> /\ c.events[1].tag = "BOARDS"

\* C19: whatever the class of the bus, a passenger boards only in a call
\* that reaches a boarding loop, only if its flag for the bus's geometry
\* equals the bus's sign for it and the bus holds fewer passengers than its
\* capacity; the one that boards is the first in the stop's list that meets
\* the class and direction tests, and it joins the end of the bus's list.
C19_FirstCandidateBoards ==
    \A k \in 1..Len(calls) :
        LET c == calls[k]
            bus == c.before.bus
        IN  (c.events # <<>> /\ c.events[1].tag = "BOARDS") =>
                /\ k \in BoardingCalls
                /\ Len(c.events) = 1
                /\ Candidates(c) # {}
                /\ LET p == c.before.waiting[Min(Candidates(c))]
                   IN  /\ c.events[1].uid = p.uid
                       /\ FlagOf(p, bus.move) = bus.busdir[bus.move]
                       /\ Len(bus.passengers) < bus.capacity
                       /\ Len(c.after.bus.passengers) = Len(bus.passengers) + 1
                       /\ c.after.bus.passengers[Len(c.after.bus.passengers)] = p
                       /\ Len(c.after.bus.passengers) <= bus.capacity
                       /\ p.uid \notin Uids(c.after.waiting)

\* A passenger boards past one ahead of it in the stop's list that the bus
\* does not take.
C19_Witness ==
    \E k \in BoardingCalls :
        LET c == calls[k]
        IN  /\ c.events # <<>> /\ c.events[1].tag = "BOARDS"
            /\ Min(Candidates(c)) > 1
            /\ c.after.waiting # <<>>
            /\ c.after.waiting[1] = c.before.waiting[1]

\* A full bus leaves behind a passenger that meets the class and direction
\* tests.
C19_WitnessFull ==
    \E k \in BoardingCalls :
        LET c == calls[k]
        IN  /\ Candidates(c) # {}
            /\ ~HasRoom(c.before.bus)
            /\ c.events = <<>>

\* The stop_at calls of the last tick in which a bus with room finds a
\* waiting passenger whose flag for its geometry equals its sign, nobody on
\* board being to alight.
Offered ==
    {k \in BoardingCalls :
        /\ HasRoom(calls[k].before.bus)
        /\ \E i \in 1..Len(calls[k].before.waiting) :
              FlagOf(calls[k].before.waiting[i], calls[k].before.bus.move)
                 = calls[k].before.bus.busdir[calls[k].before.bus.move]}

\* C20 as stated: a bus with an empty station set, whatever its class, takes
\* a waiting passenger with a matching flag at any stop of its geometry when
\* it has room.
C20_EmptyStationsServeAll ==
    \A k \in Offered :
        calls[k].before.bus.stations = {} => ReachedBoarding(calls[k])

\* C20 as the code behaves: a local bus takes a waiting passenger with a
\* matching flag at any stop of its geometry when it has room; a rapid or
\* an express bus with an empty station set takes nobody at any stop.
C20_OnlyLocalServesAll ==
    \A k \in 1..Len(calls) :
        LET c == calls[k]
        IN  /\ (k \in Offered /\ c.before.bus.rapid_express_local = "l") =>
                  /\ ReachedBoarding(c)
                  /\ c.stop \in AxisStops(c.before.bus.move)
            /\ (c.before.bus.rapid_express_local \in {"r", "e"} /\ c.before.bus.stations = {}) =>
                  /\ c.events = <<>>
                  /\ c.err = "none"
                  /\ c.after.waiting = c.before.waiting
                  /\ c.after.bus.passengers = <<>>

\* A rapid or an express bus without stations, with room, leaves behind a
\* passenger heading its way.
C20_Witness ==
    \E k \in Offered :
        /\ calls[k].before.bus.rapid_express_local \in {"r", "e"}
        /\ calls[k].before.bus.stations = {}
        /\ calls[k].events = <<>>
        /\ calls[k].stop \in AxisStops(calls[k].before.bus.move)

\* The BOARDS events of a list that name a bus of class rel.
BoardingsOf(list, bs, rel) ==
    {j \in 1..Len(list) :
        /\ list[j].tag = "BOARDS"
        /\ \E b \in 1..Len(bs) : bs[b].name = list[j].by /\ bs[b].rapid_express_local = rel}

\* C21: init() leaves income at 0 and every tick adds to it 3.5 for each
\* boarding of a rapid bus, 5 for each of an express bus and 2 for each of a
\* local bus (7, 10 and 4 half units) and nothing else; the per-bus boarding
\* counts then give income = 3.5 x rapid + 5 x express + 2 x local boardings.
C21_IncomeIsFares ==
    [][pc' = "running" =>
         /\ IF IsTick
            THEN income' = income
                              + 7 * Cardinality(BoardingsOf(events', buses, "r"))
                              + 10 * Cardinality(BoardingsOf(events', buses, "e"))
                              + 4 * Cardinality(BoardingsOf(events', buses, "l"))
            ELSE income' = 0
         /\ \A b \in 1..Len(buses) :
               buses'[b].passenger_count - buses[b].passenger_count =
                  (IF IsTick
                   THEN Cardinality({j \in 1..Len(events') :
                                        events'[j].tag = "BOARDS" /\ events'[j].by = buses[b].name})
                   ELSE 0)]_vars

\* A rapid and an express bus have both taken a fare.
C21_Witness ==
    /\ pc = "running"
    /\ \E b, d \in 1..Len(buses) :
          /\ buses[b].rapid_express_local = "r" /\ buses[b].passenger_count > 0
          /\ buses[d].rapid_express_local = "e" /\ buses[d].passenger_count > 0
    /\ income = 17

\* The events update() handed to its caller in the last tick: none when it
\* raised.
Returned(list, raised) == IF raised = "none" THEN list ELSE <<>>

\* The BUS TURNS events among a list of events.
Turns(list) == {j \in 1..Len(list) : list[j].tag = "BUS TURNS"}

\* C22: after init() the fixed cost is 25 for each bus (50 half units) and
\* no tick changes it; init() leaves the oil cost at 0 and every tick adds
\* to it 2.5 (5 half units) for each BUS TURNS event update() returns.
C22_CostsFollowBusesAndTurns ==
    [][pc' = "running" =>
         /\ fixed_cost' = 50 * Len(buses')
         /\ IF IsTick
            THEN oil_cost' = oil_cost + 5 * Cardinality(Turns(Returned(events', err')))
            ELSE oil_cost' = 0]_vars

\* The same while neither init() nor update() has raised.
C22_CostsUnlessRaised ==
    [][(pc' = "running" /\ err' = "none") =>
         /\ fixed_cost' = 50 * Len(buses')
         /\ IF IsTick
            THEN oil_cost' = oil_cost + 5 * Cardinality(Turns(events'))
            ELSE oil_cost' = 0]_vars

\* init() has raised and charged the fixed cost of no bus.
C22_InitRaised == pc = "running" /\ ticks = 0 /\ err # "none" /\ fixed_cost # 50 * Len(buses)

\* The waiting list of stop n as the buses of the tick left it: what the
\* last stop_at call there left, or the list before the tick.
AfterBuses(n) ==
    LET ks == {k \in 1..Len(calls') : calls'[k].stop = n}
    IN  IF ks = {} THEN stops[n]
        ELSE calls'[CHOOSE k \in ks : \A m \in ks : m <= k].after.waiting

\* The positions in a list of the passengers that have waited more than 12
\* seconds at clock reading t.
PastPatience(list, t) == {i \in 1..Len(list) : t - list[i].arrive_time > 12 * Resolution}

\* The LEFT events of a list at stop n.
LeftAt(list, n) == {j \in 1..Len(list) : list[j].tag = "LEFT" /\ list[j].at = n}

\* C23: in a tick that reaches its abandonment phase, at every stop where
\* somebody has waited more than 12 seconds exactly the first such passenger
\* of the list leaves: one LEFT event names it and the others keep their
\* places; at a stop where nobody has, nobody leaves; leave_passengers grows
\* by the number of stops where somebody left; whoever arrived in the tick
\* is behind them.
C23_FirstOverdueLeaves ==
    [][(IsTick /\ err' = "none") =>
         /\ \A n \in StopSet :
               LET list == AfterBuses(n)
                   over == PastPatience(list, now')
                   kept == [i \in 1..Len(list) |-> list[i].uid]
                   left == LeftAt(events', n)
               IN  IF over = {}
                   THEN /\ left = {}
                        /\ Len(stops'[n]) >= Len(list)
                        /\ \A i \in 1..Len(list) : stops'[n][i] = list[i]
                   ELSE /\ Cardinality(left) = 1
                        /\ \A j \in left : events'[j].uid = list[Min(over)].uid
                        /\ Len(stops'[n]) >= Len(list) - 1
                        /\ \A i \in 1..(Len(list) - 1) :
                              stops'[n][i] = list[IF i < Min(over) THEN i ELSE i + 1]
         /\ leave_passengers' - leave_passengers =
               Cardinality({n \in StopSet : PastPatience(AfterBuses(n), now') # {}})]_vars

\* A passenger has left a stop where another one, behind it, goes on
\* waiting, and the run counts one abandonment.
C23_Witness ==
    /\ err = "none"
    /\ leave_passengers = 1
    /\ \E j \in 1..Len(events) :
          /\ events[j].tag = "LEFT"
          /\ Len(stops[events[j].at]) >= 1
          /\ stops[events[j].at][1].uid > events[j].uid
          /\ stops[events[j].at][1].arrive_time < now

\* After a tick that reached its abandonment phase a passenger that has
\* waited exactly 12 seconds is still waiting.
C23_WitnessAtThreshold ==
    /\ err = "none" /\ ticks > 0
    /\ \E n \in StopSet : \E i \in 1..Len(stops[n]) :
          now - stops[n][i].arrive_time = 12 * Resolution

\* The positions in the list of stop n after the tick of the passenger
\* objects made in the tick.
Arrived(n) == {i \in 1..Len(stops'[n]) : stops'[n][i].uid >= next_uid}

\* The WAITS events of the tick at stop n.
WaitsAt(n) == {j \in 1..Len(events') : events'[j].tag = "WAITS" /\ events'[j].at = n}

LineStops(g) == AxisStops(g)
LineCoord(g, n) == IF g = "v" THEN CoordY(n) ELSE CoordX(n)

\* Riding geometry g from stop a to stop b is riding it the way flag says.
Rides(g, a, b, flag) ==
    /\ a # b
    /\ a \in LineStops(g) /\ b \in LineStops(g)
    /\ flag # 0
    /\ (flag = 1) = (LineCoord(g, b) > LineCoord(g, a))

\* There is a journey from origin to destination that rides exactly the
\* geometries whose flag in f (horizontal, vertical, inclined) is not 0,
\* each once and the way its flag says, changing at stops the lines share.
Journey(origin, destination, f) ==
    LET flag == [g \in {"h", "v", "s"} |-> CASE g = "h" -> f[1] [] g = "v" -> f[2] [] g = "s" -> f[3]]
        used == {g \in {"h", "v", "s"} : flag[g] # 0}
    IN  \/ \E g \in used :
              used = {g} /\ Rides(g, origin, destination, flag[g])
        \/ \E g1, g2 \in used : \E x \in StopSet :
              /\ used = {g1, g2} /\ g1 # g2
              /\ Rides(g1, origin, x, flag[g1])
              /\ Rides(g2, x, destination, flag[g2])
        \/ \E g1, g2, g3 \in used : \E x, y \in StopSet :
              /\ used = {g1, g2, g3} /\ g1 # g2 /\ g2 # g3 /\ g1 # g3
              /\ Rides(g1, origin, x, flag[g1])
              /\ Rides(g2, x, y, flag[g2])
              /\ Rides(g3, y, destination, flag[g3])

\* C25: for every origin and every other destination among the ten stops
\* the classification assigns the three flags values in {-1, 0, 1}, not all
\* 0, and the geometries with a non-zero flag are those of a journey from
\* the origin to the destination, ridden the way the flags say; update_stop
\* never ends with a flag unassigned, and the passenger it makes carries
\* these flags.
C25_FlagsDefinedAndRidden ==
    /\ err # "UnboundLocalError"
    /\ \A origin \in StopSet : \A destination \in StopSet \ {origin} :
          LET f == Flags(origin, destination, Change(origin, destination))
          IN  /\ \A i \in 1..3 : f[i] \in {0 - 1, 0, 1}
              /\ f # <<0, 0, 0>>
              /\ Journey(origin, destination, f)
    /\ \A j \in 1..Len(events) :
          (ticks > 0 /\ events[j].tag = "WAITS") =>
              LET n == events[j].at
                  i == IndexOf(stops[n], events[j].uid)
              IN  /\ i # 0
                  /\ FlagsOf(stops[n][i]) = <<events[j].h, events[j].v, events[j].s>>
                  /\ Journey(n, stops[n][i].destination, FlagsOf(stops[n][i]))

\* A passenger has arrived whose journey rides all three geometries.
C25_Witness ==
    /\ err = "none"
    /\ \E j \in 1..Len(events) :
          /\ events[j].tag = "WAITS"
          /\ events[j].h # 0 /\ events[j].v # 0 /\ events[j].s # 0
          /\ \E i \in 1..Len(stops[events[j].at]) :
                /\ stops[events[j].at][i].uid = events[j].uid
                /\ stops[events[j].at][i].change

\* The stops at which the b-th bus boarded or set down a passenger in the
\* stop_at calls of a list.
ActedAt(list, b) ==
    {list[k].stop : k \in {c \in 1..Len(list) : list[c].bus = b /\ list[c].events # <<>>}}

\* The stops for which stop_at was invoked for the b-th bus in a list of
\* calls.
InvokedAt(list, b) == {list[k].stop : k \in {c \in 1..Len(list) : list[c].bus = b}}

\* C26: in a tick that finds a bus stopped the bus keeps its position and
\* its direction and emits no BUS TURNS event, and stop_at is invoked for it
\* at every stop where it boarded or set down a passenger in the tick
\* before.
C26_StoppedBusStaysAndRevisits ==
    [][IsTick =>
         \A b \in BusIds :
            buses[b].stopped =>
               /\ buses'[b].position = buses[b].position
               /\ buses'[b].direction = buses[b].direction
               /\ buses'[b].busdir = buses[b].busdir
               /\ TurnEvents(events', buses[b].name) = {}
               /\ ActedAt(calls, b) # {}
               /\ ActedAt(calls, b) \subseteq InvokedAt(calls', b)]_vars

\* A stopped bus is served again at the stop where it took a passenger the
\* tick before, takes nobody and is ready to move on.
C26_Witness ==
    /\ ticks >= 2
    /\ \E k \in 1..Len(calls) :
          /\ calls[k].before.bus.stopped
          /\ calls[k].events = <<>>
          /\ calls[k].before.bus.passengers # <<>>
          /\ calls[k].stop = calls[k].before.bus.passengers[
                                 Len(calls[k].before.bus.passengers)].source
          /\ ~buses[calls[k].bus].stopped
          /\ buses[calls[k].bus].position = calls[k].before.bus.position

\* The same with the follow-up calls owed only by a tick that raises
\* nothing.
C26_RevisitsUnlessRaised ==
    [][IsTick =>
         \A b \in BusIds :
            buses[b].stopped =>
               /\ buses'[b].position = buses[b].position
               /\ buses'[b].direction = buses[b].direction
               /\ buses'[b].busdir = buses[b].busdir
               /\ TurnEvents(events', buses[b].name) = {}
               /\ ActedAt(calls, b) # {}
               /\ err' = "none" => ActedAt(calls, b) \subseteq InvokedAt(calls', b)]_vars

\* The stop_at calls of the tick for the b-th bus, in the order made.
CallsOf(list, b) == {k \in 1..Len(list) : list[k].bus = b}

\* C27: at the end of every tick a bus is stopped exactly when it boarded
\* or set down a passenger in that tick, and a stop_at call that does
\* neither leaves the bus not stopped and emits no event.
C27_StoppedIffActed ==
    [][IsTick =>
         /\ \A b \in BusIds : buses'[b].stopped <=> ActedAt(calls', b) # {}
         /\ \A k \in 1..Len(calls') :
               (calls'[k].events = <<>> /\ calls'[k].err = "none") =>
                   ~calls'[k].after.bus.stopped]_vars

\* C27 for the ticks that raise nothing: a bus is stopped at the end of the
\* tick exactly when it boarded or set down a passenger in that tick.
C27_StoppedIffActedUnlessRaised ==
    [][(IsTick /\ err' = "none") =>
         \A b \in BusIds : buses'[b].stopped <=> ActedAt(calls', b) # {}]_vars

\* What the code does in a tick that raises nothing: a bus is stopped at the
\* end of the tick exactly when the last stop_at call made for it in that
\* tick boarded or set down a passenger.
C27_StoppedIffLastCallActed ==
    [][(IsTick /\ err' = "none") =>
         /\ \A b \in BusIds :
               buses'[b].stopped <=>
                  /\ CallsOf(calls', b) # {}
                  /\ calls'[CHOOSE k \in CallsOf(calls', b) :
                               \A m \in CallsOf(calls', b) : m <= k].events # <<>>
         /\ \A k \in 1..Len(calls') :
               calls'[k].events = <<>> => ~calls'[k].after.bus.stopped]_vars

\* A bus has taken a passenger at one stop and, in the same tick, been
\* served at a second stop where it took nobody: it is not stopped.
C27_ActedAndNotStopped ==
    /\ err = "none"
    /\ \E b \in BusIds :
          /\ ~buses[b].stopped
          /\ ActedAt(calls, b) # {}

\* The stops of the geometry of a bus whose coordinate lies between old and
\* new as the crossing test asks for a bus heading dir.
CrossedStops(move, dir, old, new) ==
    {n \in AxisStops(move) : Crossed(dir, old, LineCoord(move, n), new)}

\* The coordinate of a position along the free axis of a geometry.
Along(move, position) == IF move = "v" THEN position[2] ELSE position[1]

\* C28: in a tick where a bus moves from old to new, stop_at is invoked for
\* exactly the stops of its geometry with old < c <= new when it headed up
\* the axis, old > c >= new when it headed down; a stop the bus started on
\* is not among them.
C28_CrossedStopsServed ==
    [][IsTick =>
         \A b \in BusIds :
            (b <= moved' /\ ~buses[b].stopped) =>
               /\ InvokedAt(calls', b) =
                     CrossedStops(buses[b].move, buses[b].direction,
                                  Along(buses[b].move, buses[b].position),
                                  Along(buses[b].move, buses'[b].position))
               /\ \A n \in InvokedAt(calls', b) :
                     LineCoord(buses[b].move, n) # Along(buses[b].move, buses[b].position)]_vars

\* What the code does in a tick that raises nothing: the crossing test reads
\* the direction the bus has after the move, which a turn has negated, so a
\* bus that turns is handed to stop_at at no stop in that tick.
C28_CrossedUnlessTurned ==
    [][(IsTick /\ err' = "none") =>
         \A b \in BusIds :
            ~buses[b].stopped =>
               /\ InvokedAt(calls', b) =
                     CrossedStops(buses[b].move, buses'[b].direction,
                                  Along(buses[b].move, buses[b].position),
                                  Along(buses[b].move, buses'[b].position))
               /\ TurnEvents(events', buses[b].name) # {} => InvokedAt(calls', b) = {}
               /\ \A n \in InvokedAt(calls', b) :
                     LineCoord(buses[b].move, n) # Along(buses[b].move, buses[b].position)]_vars

\* A bus has just turned around after passing a stop of its geometry and
\* stop_at was invoked for it at no stop.
C28_TurnedPastStop ==
    /\ ticks >= 1
    /\ err = "none"
    /\ \E b \in BusIds :
          /\ TurnEvents(events, buses[b].name) # {}
          /\ InvokedAt(calls, b) = {}
          /\ CrossedStops(buses[b].move, 0 - buses[b].direction,
                          Along(buses[b].move, buses[b].position)
                             + buses[b].speed * buses[b].direction,
                          Along(buses[b].move, buses[b].position)) # {}

\* In the first tick a bus has moved off the coordinate of a stop of its
\* geometry and was handed to stop_at at another stop, not at that one.
C28_StartedOnStop ==
    /\ ticks = 1
    /\ err = "none"
    /\ \E b \in BusIds : \E n \in AxisStops(buses[b].move) :
          /\ ~built[b].stopped
          /\ buses[b].position # built[b].position
          /\ LineCoord(buses[b].move, n) = Along(buses[b].move, built[b].position)
          /\ n \notin InvokedAt(calls, b)
          /\ InvokedAt(calls, b) # {}

\* C29: a network is never constructed from a stop holding a passenger
\* whose source is another stop, a horizontal bus off y = 0, a vertical bus
\* off x = 75, or a bus whose position is outside the range configured for
\* its geometry: the constructors raise an error instead.
C29_InvalidRejected ==
    pc = "constructed" =>
        /\ \A n \in StopSet : \A i \in 1..Len(stops[n]) : stops[n][i].source = n
        /\ \A b \in BusIds :
              /\ buses[b].move = "h" => buses[b].position[2] = 0
              /\ buses[b].move = "v" => buses[b].position[1] = 75
              /\ InsideBounds(buses[b])

\* What the constructors do reject: a passenger at the wrong stop, a
\* horizontal bus off y = 0, a vertical bus off x = 75 (ValueError) and a
\* direction other than 1 or -1 (TypeError).
C29_MisplacedRejected ==
    /\ pc = "constructed" =>
          /\ \A n \in StopSet : \A i \in 1..Len(stops[n]) : stops[n][i].source = n
          /\ \A b \in BusIds :
                /\ buses[b].move = "h" => buses[b].position[2] = 0
                /\ buses[b].move = "v" => buses[b].position[1] = 75
                /\ buses[b].direction \in {1, 0 - 1}
    /\ pc = "rejected" => err \in {"ValueError", "TypeError"}
    /\ (pc = "stops" /\ \E b \in 1..Len(built) :
                            \/ built[b].move = "h" /\ built[b].position[2] # 0
                            \/ built[b].move = "v" /\ built[b].position[1] # 75)
          => ~ENABLED (new_Bus /\ pc' = "buses")

\* The script was stopped by the ValueError of a bus off its line.
C29_MisplacedBusRejected ==
    /\ pc = "rejected"
    /\ err = "ValueError"
    /\ \A n \in StopSet : \A i \in 1..Len(stops[n]) : stops[n][i].source = n
    /\ \E b \in 1..Len(built) :
          /\ built[b].direction \in {1, 0 - 1}
          /\ built[b].move = "v" /\ built[b].position[1] # 75

\* A network was constructed with a horizontal bus beyond the end of the
\* horizontal range.
C29_OutOfRangeAccepted ==
    /\ pc = "constructed"
    /\ \E b \in BusIds :
          /\ buses[b].move = "h"
          /\ buses[b].position[1] > net.hori_end

\* The ALIGHTS and CHANGES events of the stop_at calls of the last tick, each
\* with the riders the call found on the bus.
SetDowns ==
    {x \in {[event |-> calls[k].events[1], riders |-> calls[k].before.bus.passengers] :
               k \in {c \in 1..Len(calls) : calls[c].events # <<>>}} :
        x.event.tag \in {"ALIGHTS", "CHANGES"}}

\* The DEP and H/V/S DIR fields of an event are the source and the flags of
\* the passenger object p.
FieldsOf(event, p) ==
    /\ event.dep = p.source
    /\ event.h = p.horizontal_direction
    /\ event.v = p.vertical_direction
    /\ event.s = p.inclined_direction

\* C30: the DEP field and the three direction fields of every ALIGHTS and
\* CHANGES event are the source and the flags of the passenger the event
\* names, whoever else rides the bus.
C30_FieldsOfNamedPassenger ==
    \A x \in SetDowns :
        FieldsOf(x.event, x.riders[IndexOf(x.riders, x.event.uid)])

\* What the code does: the name and the DES field are those of the passenger
\* set down, the DEP field and the direction fields those of the last rider
\* in bus.passengers, the one the scan ended on.
C30_FieldsOfLastRider ==
    \A x \in SetDowns :
        /\ IndexOf(x.riders, x.event.uid) # 0
        /\ x.event.pax = x.riders[IndexOf(x.riders, x.event.uid)].name
        /\ x.event.des = x.riders[IndexOf(x.riders, x.event.uid)].destination
        /\ FieldsOf(x.event, x.riders[Len(x.riders)])

\* A passenger was set down while a rider who boarded at another stop stayed
\* on the bus, and the event gives the other rider's stop as DEP.
C30_OtherRidersOrigin ==
    \E x \in SetDowns :
        /\ Len(x.riders) = 2
        /\ x.event.uid = x.riders[1].uid
        /\ x.event.dep = x.riders[2].source
        /\ x.event.dep # x.riders[1].source

\* A passenger was set down while another rider stayed on the bus, and the
\* event gives the other rider's direction flags.
C30_OtherRidersFlags ==
    \E x \in SetDowns :
        /\ x.event.uid # x.riders[Len(x.riders)].uid
        /\ <<x.event.h, x.event.v, x.event.s>> #
              <<x.riders[IndexOf(x.riders, x.event.uid)].horizontal_direction,
                x.riders[IndexOf(x.riders, x.event.uid)].vertical_direction,
                x.riders[IndexOf(x.riders, x.event.uid)].inclined_direction>>

\* C31: the wait-time histogram belongs to a network: a call of init() or
\* update() on the first network leaves the histogram get_wait() returns for
\* the second, running network as it was.
C31_HistogramOwned ==
    [][(pc = "running" /\ twin.err = "none" /\ twin' = twin) =>
         get_wait(twin)' = get_wait(twin)]_vars

\* The second network has not been touched since the histogram get_wait()
\* returns for it counted a boarding, and that count is gone or doubled.
C31_HistogramShared ==
    /\ pc = "running"
    /\ twin.err = "none"
    /\ twin.board_passengers = 1
    /\ twin.leave_passengers = 0
    /\ \A k \in 1..Buckets : get_wait(twin)[k] # 1

\* The uids of the passenger objects in each place of the network: the
\* waiting list of every stop, then the passenger list of every bus.
Places ==
    [i \in 1..Len(StopOrder) |-> [j \in 1..Len(stops[StopOrder[i]]) |-> stops[StopOrder[i]][j].uid]]
    \o [b \in 1..Len(buses) |-> [j \in 1..Len(buses[b].passengers) |-> buses[b].passengers[j].uid]]

\* C32: every passenger object is in at most one place, a stop's waiting
\* list or a bus's passenger list, and appears there once.
C32_PassengerInOnePlace ==
    /\ \A i \in 1..Len(Places) : \A j, k \in 1..Len(Places[i]) :
          Places[i][j] = Places[i][k] => j = k
    /\ \A i, k \in 1..Len(Places) :
          i # k => Range(Places[i]) \cap Range(Places[k]) = {}

\* A passenger has just changed bus and waits at the hub while another
\* passenger, who boarded with it, rides on.
C32_Witness ==
    /\ err = "none"
    /\ \E j \in 1..Len(events) :
          /\ events[j].tag = "CHANGES"
          /\ events[j].uid \in Uids(stops[events[j].at])
          /\ \E b \in BusIds :
                /\ buses[b].name = events[j].by
                /\ buses[b].passengers # <<>>
                /\ events[j].uid \notin Uids(buses[b].passengers)

\* A passenger has just been removed from a stop for waiting too long and
\* is in no place of the network.
C32_WitnessLeft ==
    /\ err = "none"
    /\ \E j \in 1..Len(events) :
          /\ events[j].tag = "LEFT"
          /\ \A i \in 1..Len(Places) : events[j].uid \notin Range(Places[i])

\* C33: a bus constructed with busdir[move] equal to its direction has
\* direction = busdir[move] in every reachable state, both 1 or -1, and the
\* busdir entries of the other two geometries are those it was built with.
C33_SignTableFollowsDirection ==
    \A b \in BusIds :
        built[b].busdir[built[b].move] = built[b].direction =>
            /\ buses[b].direction = buses[b].busdir[buses[b].move]
            /\ buses[b].direction \in {1, 0 - 1}
            /\ buses[b].move = built[b].move
            /\ \A g \in {"h", "v", "s"} \ {buses[b].move} :
                  buses[b].busdir[g] = built[b].busdir[g]

\* A bus built with busdir[move] equal to its direction has turned around an
\* odd number of times and heads the other way.
C33_Witness ==
    /\ ticks >= 1
    /\ \E b \in BusIds :
          /\ built[b].busdir[built[b].move] = built[b].direction
          /\ buses[b].direction = 0 - built[b].direction
          /\ buses[b].busdir[buses[b].move] = 0 - built[b].direction

\* A bus has turned around twice and heads the way it was built.
C33_WitnessTwice ==
    /\ ticks >= 2
    /\ \E b \in BusIds :
          /\ built[b].busdir[built[b].move] = built[b].direction
          /\ buses[b].direction = built[b].direction
          /\ TurnEvents(events, buses[b].name) # {}

\* The number of flags of <<horizontal, vertical, inclined>> that are not 0.
NonZeroFlags(f) == Cardinality({i \in 1..3 : f[i] # 0})

\* C34: for every origin and every other destination among the ten stops
\* the change flag update_stop computes is true exactly when at least two of
\* the three direction flags are not 0, and with change false exactly one
\* flag is not 0; every passenger update_stop has made carries such flags.
C34_ChangeIffTwoFlags ==
    /\ \A origin \in StopSet : \A destination \in StopSet \ {origin} :
          LET change == Change(origin, destination)
              f == Flags(origin, destination, change)
          IN  /\ change <=> NonZeroFlags(f) >= 2
              /\ ~change => NonZeroFlags(f) = 1
    /\ \A j \in 1..Len(events) :
          (ticks > 0 /\ events[j].tag = "WAITS") =>
              LET i == IndexOf(stops[events[j].at], events[j].uid)
                  p == stops[events[j].at][i]
              IN  /\ i # 0
                  /\ p.change = Change(events[j].at, p.destination)
                  /\ p.change <=> NonZeroFlags(FlagsOf(p)) >= 2
                  /\ ~p.change => NonZeroFlags(FlagsOf(p)) = 1

\* A passenger has arrived at a transfer hub for a stop on another line of
\* the hub: it need not change bus and has one flag that is not 0.
C34_Witness ==
    /\ err = "none"
    /\ \E j \in 1..Len(events) : \E i \in 1..Len(stops["Queens St"]) :
          /\ events[j].tag = "WAITS"
          /\ events[j].at = "Queens St"
          /\ stops["Queens St"][i].uid = events[j].uid
          /\ stops["Queens St"][i].destination = "Harr St"
          /\ ~stops["Queens St"][i].change
          /\ NonZeroFlags(FlagsOf(stops["Queens St"][i])) = 1

\* A passenger has arrived who must change bus and has exactly two flags
\* that are not 0.
C34_WitnessChange ==
    /\ err = "none"
    /\ \E j \in 1..Len(events) : \E i \in 1..Len(stops[events[j].at]) :
          /\ events[j].tag = "WAITS"
          /\ stops[events[j].at][i].uid = events[j].uid
          /\ stops[events[j].at][i].change
          /\ NonZeroFlags(FlagsOf(stops[events[j].at][i])) = 2

\* The stop_at calls of the last tick in which a rapid or an express bus
\* boarded or set down a passenger.
LimitedStopActions ==
    {k \in 1..Len(calls) :
        /\ calls[k].before.bus.rapid_express_local \in {"r", "e"}
        /\ calls[k].events # <<>>}

\* C35: a rapid or an express bus boards and sets down passengers only at
\* the stops of its station list.
C35_ActsOnlyAtStations ==
    \A k \in LimitedStopActions : calls[k].stop \in calls[k].before.bus.stations

\* What the code does: a rapid or an express bus boards passengers only at
\* its stations and sets them down at their destination, which is a station
\* when it is on the bus's line, or at a transfer hub on its line, station
\* or not.
C35_BoardsOnlyAtStations ==
    \A k \in LimitedStopActions :
        LET c == calls[k]
        IN  \/ c.stop \in c.before.bus.stations
            \/ /\ c.events[1].tag = "CHANGES"
               /\ c.stop \in TransferHubs
               /\ c.stop # c.events[1].des

\* A rapid bus has set down a passenger at a stop that is not one of its
\* stations.
C35_SetDownOffStations ==
    \E k \in LimitedStopActions :
        /\ calls[k].err = "none"
        /\ calls[k].before.bus.rapid_express_local = "r"
        /\ calls[k].before.bus.stations # {}
        /\ calls[k].events[1].tag = "CHANGES"
        /\ calls[k].stop \notin calls[k].before.bus.stations

\* The events of a list in which the bus called name boarded or set down a
\* passenger.
PassengerActions(list, name) ==
    {j \in 1..Len(list) : list[j].tag \in PassengerTags /\ list[j].by = name}

\* C36: in a tick in which a bus turns around stop_at is invoked for it at
\* no stop and the tick's events hold no BOARDS, ALIGHTS or CHANGES of that
\* bus, whatever stops lie between its old and its new position.
C36_TurningBusServesNothing ==
    \A b \in BusIds :
        (ticks > 0 /\ TurnEvents(events, buses[b].name) # {}) =>
            /\ InvokedAt(calls, b) = {}
            /\ PassengerActions(events, buses[b].name) = {}
            /\ ~buses[b].stopped

\* A bus has just turned around after running past a stop of its line where
\* a passenger who arrived in an earlier tick waits for a bus heading the
\* way the bus now heads, and the bus has room.
C36_Witness ==
    /\ ticks >= 2
    /\ err = "none"
    /\ \E b \in BusIds :
          /\ TurnEvents(events, buses[b].name) # {}
          /\ HasRoom(buses[b])
          /\ \E n \in CrossedStops(buses[b].move, 0 - buses[b].direction,
                                    Along(buses[b].move, buses[b].position)
                                       + buses[b].speed * buses[b].direction,
                                    Along(buses[b].move, buses[b].position)) :
                \E i \in 1..Len(stops[n]) :
                   /\ stops[n][i].arrive_time < now
                   /\ ClassAdmits(buses[b], stops[n][i], n)
                   /\ DirectionMatches(buses[b], stops[n][i])

\* get_passenger(): [self.board_passengers, self.leave_passengers]
get_passenger == <<board_passengers, leave_passengers>>

\* C37: the boarded and abandoned tallies count every passenger at most
\* once: their sum never exceeds the number of passengers that have entered
\* the network.
C37_TalliesCountOnce ==
    pc = "running" => get_passenger[1] + get_passenger[2] <= passenger_num

\* What the code does: the tallies count boardings and abandonments, and a
\* passenger who changes bus can board again or give up after boarding; each
\* tally alone never exceeds twice the passengers entered within these runs.
C37_TalliesCountEvents ==
    [][IsTick =>
         /\ board_passengers' = board_passengers
               + Cardinality({j \in 1..Len(events') : events'[j].tag = "BOARDS"})
         /\ leave_passengers' = leave_passengers
               + Cardinality({j \in 1..Len(events') : events'[j].tag = "LEFT"})]_vars

\* One passenger has entered the network; it boarded a bus, changed at a
\* hub and boarded a bus of the other line: it is counted as boarded twice.
C37_CountedTwice ==
    /\ pc = "running"
    /\ err = "none"
    /\ passenger_num = 1
    /\ get_passenger = <<2, 0>>

\* The ticks in which a bus can stay stopped one after the other: one for
\* each passenger it can take or set down, and the one that clears the flag.
ResumeTicks == 2 * MaxPax + 1

\* C38: a bus whose stopped flag is true, however it was built and placed,
\* has it false again after some more ticks (here: whenever that many ticks
\* of the run remain).
C38_StoppedBusResumes ==
    (buses[1].stopped /\ ticks + ResumeTicks <= MaxTicks) ~> ~buses[1].stopped

\* What the code does: a bus that was built moving and became stopped by
\* boarding or setting down a passenger has the flag false again after some
\* more ticks.
C38_BuiltMovingResumes ==
    (~built[1].stopped /\ buses[1].stopped /\ ticks + ResumeTicks <= MaxTicks)
        ~> ~buses[1].stopped

\* A bus built stopped with no stop within one move behind it is where it
\* was built, still stopped, after every tick of the run, and stop_at was
\* never invoked for it.
C38_NeverResumed ==
    /\ ticks = MaxTicks
    /\ err = "none"
    /\ built[1].stopped
    /\ buses[1].stopped
    /\ buses[1].position = built[1].position
    /\ buses[1].passengers = <<>>
    /\ calls = <<>>

\* A bus built moving has boarded a passenger, stopped, and moved on.
C38_ResumedAfterBoarding ==
    /\ ~built[1].stopped
    /\ ~buses[1].stopped
    /\ buses[1].passengers # <<>>
    /\ calls = <<>>
    /\ events = <<>>

\* The ticks the bus of RideInit takes from Abbey St to East St when it
\* stops at Abbey St and at Centre St on the way.
RideTicks == 4

\* The passenger object uid rides the bus.
Rides1(uid) == uid \in Uids(buses[1].passengers)

C39_RidersLeaveUnlessRaised ==
    \A uid \in 1..MaxPax :
        (Rides1(uid) /\ ticks + RideTicks <= MaxTicks) ~> (~Rides1(uid) \/ err # "none")

\* A passenger rides the bus, bound for a stop ahead, and update() has
\* raised while another passenger was boarding.
C39_StrandedByRaise ==
    /\ err = "IndexError"
    /\ ticks < MaxTicks
    /\ \E i \in 1..Len(buses[1].passengers) :
          /\ buses[1].passengers[i].destination = "East St"
          /\ buses[1].position[1] < CoordX("East St")
          /\ buses[1].direction = 1

\* A passenger has ridden the bus to its destination and alighted there.
C39_RideEnded ==
    /\ err = "none"
    /\ \E j \in 1..Len(events) :
          /\ events[j].tag = "ALIGHTS"
          /\ events[j].at = "East St"
          /\ events[j].des = "East St"

\* The ticks a passenger of RideInit waits at most: three ticks of 4.5 s
\* pass the patience of 12 s, and one more when the passenger ahead in the
\* list is the one removed.
WaitTicks == 4

\* The passenger object uid waits at a stop.
Waits(uid) == \E n \in StopSet : uid \in Uids(stops[n])

C40_WaitersLeaveUnlessRaised ==
    \A uid \in 1..MaxPax :
        (Waits(uid) /\ ticks + WaitTicks <= MaxTicks) ~> (~Waits(uid) \/ err # "none")

\* update() has raised while a waiting passenger was boarding: the
\* passenger is still in the stop's list and no tick follows.
C40_StrandedByRaise ==
    /\ err = "IndexError"
    /\ ticks < MaxTicks
    /\ Len(stops["Centre St"]) > 0
    /\ buses[1].position = <<CoordX("Centre St"), 0>>

\* Two passengers at one stop were past the patience in the same tick:
\* one was removed in that tick and the other still waits, overdue.
C40_RemovedOneByOne ==
    /\ err = "none"
    /\ ticks + 1 <= MaxTicks
    /\ \E j \in 1..Len(events) :
          /\ events[j].tag = "LEFT"
          /\ events[j].at = "Queens St"
    /\ \E i \in 1..Len(stops["Queens St"]) : Overdue(stops["Queens St"][i], now)

====
